---- MODULE Spec2Model ----
(***************************************************************************)
(* The streaming log ingestion pipeline of otel-collector-viewer:          *)
(*   - the parse worker (log-parse.worker): format dispatch, the JSON-Lines *)
(*     loop, the pretty-printed loop, cooperative cancellation;             *)
(*   - the parse job client (OtlpLogParserService): job ids, the FileReader,*)
(*     the two message channels, the four subjects;                         *)
(*   - the aggregation store (LogViewerStateService).                       *)
(*                                                                         *)
(* A file's text is represented by what the worker's first steps make of   *)
(* it: the lines of content.split (blank, not JSON, or a JSON value), and, *)
(* for pretty-printed text, the outcome of JSON.parse on the whole text    *)
(* and the blocks splitConcatenatedJson cuts out of it.                    *)
(***************************************************************************)
EXTENDS Integers, Sequences, FiniteSets, TLC

\* ------------------------------------------------------------------ bounds
MaxJobs == 2          \* submissions per run of the model
MaxLines == 3         \* lines of a JSON-Lines text
MaxEnvelopes == 2     \* envelopes (or candidate blocks) of a pretty-printed text
MaxLogRecords == 2    \* log records inside one envelope
ChunkSize == 2        \* stands for the client's chunkSize: 500
PollEvery == 2        \* stands for the JSON-Lines poll cadence: i % 100
NanosPerMilli == 2    \* stands for the 1_000_000 of nanoTimestampToDate
MaxTimeValue == 3     \* stands for 8.64e15, the largest time value a Date holds
BodyPrefix == 2       \* stands for the 200 of rawBody.slice(0, 200)
MessagePrefix == 3    \* stands for the 500 of rawBody.slice(0, 500)

NoJob == 0            \* the empty job id '' of worker.onerror

\* ------------------------------------------------------------- arithmetic
\* Math.round(num / den) for num >= 0, den > 0: halves round up.
Round(num, den) == (2 * num + den) \div (2 * den)

RECURSIVE SumSeq(_)
SumSeq(s) == IF s = <<>> THEN 0 ELSE Head(s) + SumSeq(Tail(s))

\* The sequences over S of length lo..hi.
SeqsOf(S, lo, hi) == UNION {[1..n -> S] : n \in lo..hi}

\* ------------------------------------------------------------ the strings
\* A string is the sequence of its characters. The fields the program only
\* tests for equality (file names, message types, severity levels, status
\* categories) are kept as atoms.
UpperCaseLetters ==
    <<"A", "B", "C", "D", "E", "F", "G", "H", "I", "J", "K", "L", "M",
      "N", "O", "P", "Q", "R", "S", "T", "U", "V", "W", "X", "Y", "Z">>

LowerCaseLetters ==
    <<"a", "b", "c", "d", "e", "f", "g", "h", "i", "j", "k", "l", "m",
      "n", "o", "p", "q", "r", "s", "t", "u", "v", "w", "x", "y", "z">>

\* The character of `to` at the place c has in `from`, c itself if it has none.
MapChar(c, from, to) ==
    IF \E k \in 1..Len(from) : from[k] = c
    THEN to[CHOOSE k \in 1..Len(from) : from[k] = c]
    ELSE c

\* String.prototype.toUpperCase / toLowerCase
toUpperCase(str) == [k \in 1..Len(str) |-> MapChar(str[k], LowerCaseLetters, UpperCaseLetters)]

toLowerCase(str) == [k \in 1..Len(str) |-> MapChar(str[k], UpperCaseLetters, LowerCaseLetters)]

\* String.prototype.includes
includes(str, search) ==
    \E i \in 0..(Len(str) - Len(search)) : \A k \in 1..Len(search) : str[i + k] = search[k]

\* str.slice(0, end)
slice(str, end) == SubSeq(str, 1, IF end < Len(str) THEN end ELSE Len(str))

\* null
Null == [null |-> TRUE]

\* An optional value: present with its value, or undefined.
Present(value) == [defined |-> TRUE, value |-> value]

\* undefined, where a string (or a list of strings) may be.
Undefined == [defined |-> FALSE, value |-> <<>>]

\* undefined, where a number may be.
UndefinedNumber == [defined |-> FALSE, value |-> 0]

\* a ?? b
Coalesce(a, b) == IF a.defined THEN a ELSE b

\* !!str for an optional string: defined and not ''.
Truthy(str) == str.defined /\ str.value # <<>>

\* ------------------------------------------------------------ the records
\* new Date(ms): a Date holds a time value up to 8.64e15 ms; beyond it the
\* Date is invalid and getTime() is NaN.
Date(ms) ==
    IF ms > MaxTimeValue THEN [valid |-> FALSE, ms |-> 0] ELSE [valid |-> TRUE, ms |-> ms]

\* nanoTimestampToDate on a nanosecond string (16 digits or more):
\* new Date(Math.floor(Number(s) / 1e6)).
nanoTimestampToDate(nanoStr) == Date(nanoStr \div NanosPerMilli)

\* a.getTime() <= b.getTime(): false when either Date is invalid (NaN).
TimeLeq(a, b) == a.valid /\ b.valid /\ a.ms <= b.ms

\* a < b on Dates: false when either is invalid (NaN).
TimeLess(a, b) == a.valid /\ b.valid /\ a.ms < b.ms

ALL_SEVERITY_LEVELS == <<"TRACE", "DEBUG", "INFO", "WARN", "ERROR", "FATAL">>

\* SEVERITY_MAP, as its six loops fill it.
SEVERITY_MAP ==
    [i \in 1..24 |->
        IF i <= 4 THEN "TRACE"
        ELSE IF i <= 8 THEN "DEBUG"
        ELSE IF i <= 12 THEN "INFO"
        ELSE IF i <= 16 THEN "WARN"
        ELSE IF i <= 20 THEN "ERROR"
        ELSE "FATAL"]

\* normalizeSeverity with the text consulted before the number.
normalizeSeverityTextFirst(severityNumber, severityText) ==
    LET upper == toUpperCase(severityText.value)
        byNumber ==
            IF severityNumber.defined /\ severityNumber.value \in DOMAIN SEVERITY_MAP
            THEN SEVERITY_MAP[severityNumber.value]
            ELSE "INFO"
    IN  IF ~Truthy(severityText) THEN byNumber
        ELSE IF includes(upper, <<"T", "R", "A", "C", "E">>) THEN "TRACE"
        ELSE IF includes(upper, <<"D", "E", "B", "U", "G">>) THEN "DEBUG"
        ELSE IF includes(upper, <<"I", "N", "F", "O">>) THEN "INFO"
        ELSE IF includes(upper, <<"W", "A", "R", "N">>) THEN "WARN"
        ELSE IF includes(upper, <<"E", "R", "R", "O", "R">>)
                \/ includes(upper, <<"E", "R", "R">>) THEN "ERROR"
        ELSE IF includes(upper, <<"F", "A", "T", "A", "L">>)
                \/ includes(upper, <<"C", "R", "I", "T", "I", "C", "A", "L">>) THEN "FATAL"
        ELSE byNumber

\* normalizeSeverity: the number's entry of SEVERITY_MAP when the number is
\* truthy and has one; otherwise the first keyword the upper-cased text
\* includes; otherwise INFO.
normalizeSeverity(severityNumber, severityText) ==
    LET upper == toUpperCase(severityText.value) IN
    IF severityNumber.defined /\ severityNumber.value # 0
       /\ severityNumber.value \in DOMAIN SEVERITY_MAP
    THEN SEVERITY_MAP[severityNumber.value]
    ELSE IF ~Truthy(severityText) THEN "INFO"
    ELSE IF includes(upper, <<"T", "R", "A", "C", "E">>) THEN "TRACE"
    ELSE IF includes(upper, <<"D", "E", "B", "U", "G">>) THEN "DEBUG"
    ELSE IF includes(upper, <<"I", "N", "F", "O">>) THEN "INFO"
    ELSE IF includes(upper, <<"W", "A", "R", "N">>) THEN "WARN"
    ELSE IF includes(upper, <<"E", "R", "R", "O", "R">>)
            \/ includes(upper, <<"E", "R", "R">>) THEN "ERROR"
    ELSE IF includes(upper, <<"F", "A", "T", "A", "L">>)
            \/ includes(upper, <<"C", "R", "I", "T", "I", "C", "A", "L">>) THEN "FATAL"
    ELSE "INFO"

\* parseBodyJson: null unless the body starts with { and JSON.parse gives an
\* object. A body is represented with what JSON.parse makes of it (json: Null
\* when it throws or gives no object).
parseBodyJson(body) ==
    IF body.raw = <<>> \/ body.raw[1] # "{" THEN Null ELSE body.json

\* generateLogRecordId without the slice of the body.
generateLogRecordIdWholeBody(timeUnixNano, severityNumber, rawBody, sourceFile, lineNumber) ==
    << <<sourceFile, lineNumber, timeUnixNano, severityNumber, rawBody>>, lineNumber >>

\* generateLogRecordId: a hash of the string
\* sourceFile:lineNumber:timeUnixNano:severityNumber:rawBody.slice(0, 200),
\* in base 36, suffixed with - and the line number in base 36. The hash is
\* kept as the fields of the string it digests (ids built from the same
\* fields are equal; the collisions of the 32-bit hash between different
\* strings are not represented), the suffix as the number it renders.
generateLogRecordId(timeUnixNano, severityNumber, rawBody, sourceFile, lineNumber) ==
    << <<sourceFile, lineNumber, timeUnixNano, severityNumber, slice(rawBody, BodyPrefix)>>,
       lineNumber >>

\* The ParsedLogRecord flattenEnvelope builds for one logRecord of a resource
\* (bodyLevel, bodyTimestamp, userSessionId, userIp, the span ids, the
\* envelope's own trace id, serviceVersion, bodyAttrs, the attribute maps and
\* the scope, which nothing modelled here reads, are left out).
ParsedLogRecord(logRecord, resource, fileName, lineNumber) ==
    LET severityNum ==
            IF logRecord.severityNumber.defined THEN logRecord.severityNumber.value ELSE 0
        rawBody == logRecord.body.raw
        inner == parseBodyJson(logRecord.body)
        of(field, zero) == IF inner = Null THEN zero ELSE inner[field]
    IN  [ id |-> generateLogRecordId(logRecord.timeUnixNano, severityNum, rawBody,
                                     fileName, lineNumber),
          timeUnixNano |-> logRecord.timeUnixNano,
          timestamp |-> nanoTimestampToDate(logRecord.timeUnixNano),
          severityNumber |-> severityNum,
          severityText |-> normalizeSeverity(logRecord.severityNumber, logRecord.severityText),
          rawBody |-> rawBody,
          message |-> IF of("message", Undefined).defined
                      THEN of("message", Undefined).value
                      ELSE slice(rawBody, MessagePrefix),
          httpMethod |-> of("httpMethod", Undefined),
          httpPath |-> of("httpPath", Undefined),
          httpStatusCode |-> of("httpStatus", UndefinedNumber),
          userId |-> of("userId", Undefined),
          traceId |-> Coalesce(of("traceId", Undefined), logRecord.traceId),
          serviceName |-> resource.serviceName,
          workloadName |-> resource.workloadName,
          tags |-> of("tags", Undefined),
          sourceFile |-> fileName,
          sourceLineNumber |-> lineNumber ]

\* flattenEnvelope: the records of a decoded value, in order, or a TypeError
\* (the value is null, or its resourceLogs / scopeLogs / logRecords cannot be
\* walked). A value that is no envelope at all flattens to no records. An
\* envelope is represented with one resource, its service.name and
\* workload.name attributes, and the log records of its scopes in order.
flattenEnvelope(envelope, fileName, lineNumber) ==
    IF envelope.malformed
    THEN [threw |-> TRUE, records |-> <<>>]
    ELSE [threw |-> FALSE,
          records |-> [k \in 1..Len(envelope.logRecords) |->
                          ParsedLogRecord(envelope.logRecords[k], envelope, fileName,
                                          lineNumber)]]

\* ------------------------------------------------------ the worker's messages
ChunkMsg(jobId, records, parseErrors) ==
    [type |-> "chunk", jobId |-> jobId, records |-> records, parseErrors |-> parseErrors]

ProgressMsg(jobId, totalLines, processedLines, percent) ==
    [type |-> "progress", jobId |-> jobId, totalLines |-> totalLines,
     processedLines |-> processedLines, percent |-> percent]

CompleteMsg(jobId, totalRecords, totalParseErrors) ==
    [type |-> "complete", jobId |-> jobId, totalRecords |-> totalRecords,
     totalParseErrors |-> totalParseErrors]

\* An exception that leaves the worker's message handler: the browser reports
\* it to worker.onerror on the main thread.
UncaughtError == [type |-> "uncaught", jobId |-> NoJob]

\* ------------------------------------------------------------ the worker
\* The worker between two messages, and the locals of a running job.
IdleRun ==
    [phase |-> "idle", jobId |-> NoJob, fileName |-> "", chunkSize |-> 0,
     items |-> <<>>, i |-> 0, processedLines |-> 0, totalRecords |-> 0,
     totalParseErrors |-> 0, chunkRecords |-> <<>>, chunkErrors |-> 0]

StartRun(phase, jobId, fileName, chunkSize, items) ==
    [IdleRun EXCEPT !.phase = phase, !.jobId = jobId, !.fileName = fileName,
                    !.chunkSize = chunkSize, !.items = items]

\* What one step of the worker leaves behind: the job's locals, the
\* cancellation set, and the messages it posted.
Out(w, cancels, msgs) == [run |-> w, cancels |-> cancels, out |-> msgs]

\* The zero-envelope exit of parseSingleJson: a chunk with one parse error and
\* the completion.
FailedExtraction(jobId) ==
    <<ChunkMsg(jobId, <<>>, 1), CompleteMsg(jobId, 0, 1)>>

\* The envelopes the fallback keeps: the blocks that parse to an object with
\* resourceLogs, in order.
RECURSIVE KeptBlocks(_)
KeptBlocks(blocks) ==
    IF blocks = <<>> THEN <<>>
    ELSE IF Head(blocks).kind = "envelope"
         THEN <<Head(blocks).envelope>> \o KeptBlocks(Tail(blocks))
         ELSE KeptBlocks(Tail(blocks))

\* parseSingleJsonParse with the percents of its two progress messages
\* exchanged.
parseSingleJsonParseFiftyFirst(jobId, fileName, content, chunkSize, cancels) ==
    LET p10 == ProgressMsg(jobId, 1, 0, 50)
        p50 == ProgressMsg(jobId, 1, 0, 10)
        loop(envelopes) ==
            Out(StartRun("single", jobId, fileName, chunkSize, envelopes), cancels,
                <<p10, p50>>)
    IN  CASE content.parse = "array" -> loop(content.envelopes)
          [] content.parse = "object" -> loop(content.envelopes)
          [] content.parse = "other" ->
                Out(IdleRun, cancels, <<p10>> \o FailedExtraction(jobId))
          [] content.parse = "fail" ->
                IF content.blocks = <<>>
                THEN Out(IdleRun, cancels, <<p10>> \o FailedExtraction(jobId))
                ELSE loop(KeptBlocks(content.blocks))

\* parseSingleJson up to its loop: progress 10, the direct parse or the
\* block-splitting fallback, progress 50.
parseSingleJsonParse(jobId, fileName, content, chunkSize, cancels) ==
    LET p10 == ProgressMsg(jobId, 1, 0, 10)
        p50 == ProgressMsg(jobId, 1, 0, 50)
        loop(envelopes) ==
            Out(StartRun("single", jobId, fileName, chunkSize, envelopes), cancels,
                <<p10, p50>>)
    IN  CASE content.parse = "array" -> loop(content.envelopes)
          [] content.parse = "object" -> loop(content.envelopes)
          [] content.parse = "other" ->
                Out(IdleRun, cancels, <<p10>> \o FailedExtraction(jobId))
          [] content.parse = "fail" ->
                IF content.blocks = <<>>
                THEN Out(IdleRun, cancels, <<p10>> \o FailedExtraction(jobId))
                ELSE loop(KeptBlocks(content.blocks))

\* The inner loop of parseSingleJson: the records of one envelope pushed one
\* at a time, a chunk and a progress posted whenever the buffer is full.
RECURSIVE PushEach(_, _, _, _, _)
PushEach(records, buf, out, w, e) ==
    IF records = <<>> THEN [buf |-> buf, out |-> out]
    ELSE LET b == Append(buf, Head(records)) IN
         IF Len(b) >= w.chunkSize
         THEN PushEach(Tail(records), <<>>,
                       out \o <<ChunkMsg(w.jobId, b, 0),
                                ProgressMsg(w.jobId, Len(w.items), e + 1,
                                            50 + Round((e + 1) * 50, Len(w.items)))>>,
                       w, e)
         ELSE PushEach(Tail(records), b, out, w, e)

\* parseSingleJsonIter leaving the loop on a cancellation as it does at its
\* end: the buffer flushed, the completion posted.
parseSingleJsonIterBreaking(w, cancels) ==
    IF w.jobId \in cancels
    THEN Out(IdleRun, cancels \ {w.jobId},
             (IF Len(w.chunkRecords) > 0 THEN <<ChunkMsg(w.jobId, w.chunkRecords, 0)>>
              ELSE <<>>)
             \o <<CompleteMsg(w.jobId, w.totalRecords, 0)>>)
    ELSE LET flat == flattenEnvelope(w.items[w.i + 1], w.fileName, w.i + 1) IN
         IF flat.threw
         THEN Out(IdleRun, cancels, <<UncaughtError>>)
         ELSE LET r == PushEach(flat.records, w.chunkRecords, <<>>, w, w.i) IN
              Out([w EXCEPT !.i = @ + 1,
                            !.totalRecords = @ + Len(flat.records),
                            !.chunkRecords = r.buf],
                  cancels, r.out)

\* One iteration of the envelope loop of parseSingleJson.
parseSingleJsonIter(w, cancels) ==
    IF w.jobId \in cancels
    THEN Out(IdleRun, cancels \ {w.jobId}, <<>>)
    ELSE LET flat == flattenEnvelope(w.items[w.i + 1], w.fileName, w.i + 1) IN
         IF flat.threw
         THEN Out(IdleRun, cancels, <<UncaughtError>>)
         ELSE LET r == PushEach(flat.records, w.chunkRecords, <<>>, w, w.i) IN
              Out([w EXCEPT !.i = @ + 1,
                            !.totalRecords = @ + Len(flat.records),
                            !.chunkRecords = r.buf],
                  cancels, r.out)

\* parseSingleJson after its loop: the flush and the completion.
parseSingleJsonFlush(w, cancels) ==
    Out(IdleRun, cancels,
        (IF Len(w.chunkRecords) > 0 THEN <<ChunkMsg(w.jobId, w.chunkRecords, 0)>> ELSE <<>>)
        \o <<CompleteMsg(w.jobId, w.totalRecords, 0)>>)

\* parseJsonlIter with the catch block's totalParseErrors++ left out.
parseJsonlIterUncounted(w, cancels) ==
    IF w.i % PollEvery = 0 /\ w.jobId \in cancels
    THEN Out(IdleRun, cancels \ {w.jobId}, <<>>)
    ELSE LET line == w.items[w.i + 1] IN
         IF line.kind = "blank"
         THEN Out([w EXCEPT !.i = @ + 1, !.processedLines = @ + 1], cancels, <<>>)
         ELSE LET flat == IF line.kind = "json"
                          THEN flattenEnvelope(line.envelope, w.fileName, w.i + 1)
                          ELSE [threw |-> TRUE, records |-> <<>>]
                  buf == IF flat.threw THEN w.chunkRecords
                         ELSE w.chunkRecords \o flat.records
                  errs == IF flat.threw THEN w.chunkErrors + 1 ELSE w.chunkErrors
                  processed == w.processedLines + 1
                  full == Len(buf) >= w.chunkSize
              IN  Out([w EXCEPT !.i = @ + 1,
                                !.processedLines = processed,
                                !.totalRecords = @ + Len(flat.records),
                                !.totalParseErrors = @,
                                !.chunkRecords = IF full THEN <<>> ELSE buf,
                                !.chunkErrors = IF full THEN 0 ELSE errs],
                      cancels,
                      IF full
                      THEN <<ChunkMsg(w.jobId, buf, errs),
                             ProgressMsg(w.jobId, Len(w.items), processed,
                                         Round(processed * 100, Len(w.items)))>>
                      ELSE <<>>)

\* One iteration of the line loop of parseJsonl.
parseJsonlIter(w, cancels) ==
    IF w.i % PollEvery = 0 /\ w.jobId \in cancels
    THEN Out(IdleRun, cancels \ {w.jobId}, <<>>)
    ELSE LET line == w.items[w.i + 1] IN
         IF line.kind = "blank"
         THEN Out([w EXCEPT !.i = @ + 1, !.processedLines = @ + 1], cancels, <<>>)
         ELSE LET flat == IF line.kind = "json"
                          THEN flattenEnvelope(line.envelope, w.fileName, w.i + 1)
                          ELSE [threw |-> TRUE, records |-> <<>>]
                  buf == IF flat.threw THEN w.chunkRecords
                         ELSE w.chunkRecords \o flat.records
                  errs == IF flat.threw THEN w.chunkErrors + 1 ELSE w.chunkErrors
                  processed == w.processedLines + 1
                  full == Len(buf) >= w.chunkSize
              IN  Out([w EXCEPT !.i = @ + 1,
                                !.processedLines = processed,
                                !.totalRecords = @ + Len(flat.records),
                                !.totalParseErrors = IF flat.threw THEN @ + 1 ELSE @,
                                !.chunkRecords = IF full THEN <<>> ELSE buf,
                                !.chunkErrors = IF full THEN 0 ELSE errs],
                      cancels,
                      IF full
                      THEN <<ChunkMsg(w.jobId, buf, errs),
                             ProgressMsg(w.jobId, Len(w.items), processed,
                                         Round(processed * 100, Len(w.items)))>>
                      ELSE <<>>)

\* parseJsonl posting the completion ahead of the flushed chunk.
parseJsonlFlushCompleteFirst(w, cancels) ==
    Out(IdleRun, cancels,
        <<CompleteMsg(w.jobId, w.totalRecords, w.totalParseErrors)>>
        \o (IF Len(w.chunkRecords) > 0 \/ w.chunkErrors > 0
            THEN <<ChunkMsg(w.jobId, w.chunkRecords, w.chunkErrors)>> ELSE <<>>))

\* parseJsonl after its loop: the flush and the completion.
parseJsonlFlush(w, cancels) ==
    Out(IdleRun, cancels,
        (IF Len(w.chunkRecords) > 0 \/ w.chunkErrors > 0
         THEN <<ChunkMsg(w.jobId, w.chunkRecords, w.chunkErrors)>> ELSE <<>>)
        \o <<CompleteMsg(w.jobId, w.totalRecords, w.totalParseErrors)>>)

\* The worker's parseFile: the format dispatch.
workerParseFile(jobId, fileName, content, chunkSize, cancels) ==
    IF content.isPrettyPrinted
    THEN parseSingleJsonParse(jobId, fileName, content, chunkSize, cancels)
    ELSE Out(StartRun("jsonl", jobId, fileName, chunkSize, content.lines), cancels, <<>>)

\* The worker's message listener.
onWorkerMessage(msg, cancels) ==
    IF msg.type = "cancel"
    THEN Out(IdleRun, cancels \cup {msg.jobId}, <<>>)
    ELSE workerParseFile(msg.jobId, msg.fileName, msg.content, msg.chunkSize, cancels)

\* The next step of a running job: an iteration while the loop has items
\* left, the flush after it.
JobStep(w, cancels) ==
    IF w.phase = "jsonl"
    THEN IF w.i < Len(w.items) THEN parseJsonlIter(w, cancels)
         ELSE parseJsonlFlush(w, cancels)
    ELSE IF w.i < Len(w.items) THEN parseSingleJsonIter(w, cancels)
         ELSE parseSingleJsonFlush(w, cancels)

\* ------------------------------------------------------------- the inputs
\* The structured body of a log record: what JSON.parse gives for a body
\* that is a JSON object, by the fields flattenEnvelope reads (message,
\* http.method, http.path, http.status, user.id, trace.trace_id, tags).
Inner(message, httpMethod, httpPath, httpStatus, userId, traceId, tags) ==
    [message |-> message, httpMethod |-> httpMethod, httpPath |-> httpPath,
     httpStatus |-> httpStatus, userId |-> userId, traceId |-> traceId, tags |-> tags]

\* A body of plain text: JSON.parse, if it comes to it, rejects it.
TextBody(raw) == [raw |-> raw, json |-> Null]

\* A decoded log record with a nanosecond time, severityNumber 9 and a
\* one-character text body.
LogRecord(timeUnixNano, rawBody) ==
    [timeUnixNano |-> timeUnixNano, severityNumber |-> Present(9),
     severityText |-> Undefined, body |-> TextBody(<<rawBody>>), traceId |-> Undefined]

\* An envelope of one resource with the given attributes.
ResourceEnvelope(serviceName, workloadName, logRecords) ==
    [malformed |-> FALSE, serviceName |-> serviceName, workloadName |-> workloadName,
     logRecords |-> logRecords]

\* An envelope whose resource has neither service.name nor workload.name.
Envelope(logRecords) == ResourceEnvelope(Undefined, Undefined, logRecords)

\* A decoded value flattenEnvelope cannot walk (null, resourceLogs: 5, ...).
MalformedEnvelope ==
    [malformed |-> TRUE, serviceName |-> Undefined, workloadName |-> Undefined,
     logRecords |-> <<>>]

Envelopes(LR) ==
    {MalformedEnvelope} \cup {Envelope(s) : s \in SeqsOf(LR, 0, MaxLogRecords)}

BlankLine == [kind |-> "blank", envelope |-> Envelope(<<>>)]

\* A line JSON.parse rejects.
BadLine == [kind |-> "bad", envelope |-> Envelope(<<>>)]

JsonLine(envelope) == [kind |-> "json", envelope |-> envelope]

Lines(LR) == {BlankLine, BadLine} \cup {JsonLine(e) : e \in Envelopes(LR)}

\* A candidate block of the fallback: JSON.parse rejects it ("bad"), or gives
\* an object without resourceLogs ("other"), or an envelope.
BadBlock == [kind |-> "bad", envelope |-> Envelope(<<>>)]

OtherBlock == [kind |-> "other", envelope |-> Envelope(<<>>)]

EnvelopeBlock(envelope) == [kind |-> "envelope", envelope |-> envelope]

Blocks(LR) == {BadBlock, OtherBlock} \cup {EnvelopeBlock(e) : e \in Envelopes(LR)}

\* Text whose first non-blank line is neither { nor [.
JsonlContent(lines) ==
    [isPrettyPrinted |-> FALSE, lines |-> lines, parse |-> "none",
     envelopes |-> <<>>, blocks |-> <<>>]

\* Pretty-printed text, by what JSON.parse makes of the whole of it: an array,
\* an object with resourceLogs, another object, or a SyntaxError (and then the
\* blocks splitConcatenatedJson finds).
PrettyContent(parse, envelopes, blocks) ==
    [isPrettyPrinted |-> TRUE, lines |-> <<>>, parse |-> parse,
     envelopes |-> envelopes, blocks |-> blocks]

JsonlContents(LR, lo) ==
    {JsonlContent(l) : l \in SeqsOf(Lines(LR), lo, MaxLines)}

PrettyContents(LR, lo) ==
    {PrettyContent("array", e, <<>>) : e \in SeqsOf(Envelopes(LR), lo, MaxEnvelopes)}
    \cup {PrettyContent("object", <<e>>, <<>>) : e \in Envelopes(LR)}
    \cup {PrettyContent("other", <<>>, <<>>)}
    \cup {PrettyContent("fail", <<>>, b) : b \in SeqsOf(Blocks(LR), lo, MaxEnvelopes)}
    \cup {PrettyContent("fail", <<>>, <<>>)}

\* The byte size of a text (file.size, new Blob([text]).size): one unit per
\* line, envelope or block.
ByteSize(content) == Len(content.lines) + Len(content.envelopes) + Len(content.blocks)

OneRecord == {LogRecord(2, "m")}

\* Every text within the bounds, over one log record.
AllContents == JsonlContents(OneRecord, 1) \cup PrettyContents(OneRecord, 0)

\* The texts of the two-job protocol runs: full-length JSON-Lines texts over
\* bad and one-record lines, full-length arrays over malformed and one-record
\* envelopes, and the two zero-envelope texts.
ProtocolContents ==
    {JsonlContent(l) : l \in [1..MaxLines -> {BadLine, JsonLine(Envelope(<<LogRecord(2, "m")>>))}]}
    \cup {PrettyContent("array", e, <<>>) :
            e \in [1..MaxEnvelopes -> {MalformedEnvelope, Envelope(<<LogRecord(2, "m")>>)}]}
    \cup {PrettyContent("other", <<>>, <<>>), PrettyContent("fail", <<>>, <<BadBlock>>)}

FileNames == {"a.json"}

\* --------------------------------------------------------------- the state
VARIABLES
    jobCounter,           \* client: OtlpLogParserService.jobCounter
    readers,              \* client: the requests of the FileReaders that have not fired yet
    toWorker,             \* the requests posted to the worker, not yet handled
    activeCancellations,  \* worker: the cancellation set
    run,                  \* worker: the locals of the running job, or IdleRun
    fromWorker,           \* the responses posted by the worker, not yet handled
    allRecords,           \* state service: _allRecords
    loadedFiles,          \* state service: _loadedFiles
    filters,              \* state service: _filters
    parseProgress,        \* state service: _parseProgress
    isLoading,            \* state service: _isLoading
    selectedRecord,       \* state service: _selectedRecord
    totalParseErrors,     \* state service: _totalParseErrors
    sortDirection,        \* state service: _sortDirection
    activeJobs,           \* state service: job id -> the metadata cached at submission
    delivered,            \* what chunk$, progress$, complete$ and error$ have emitted
    submitted,            \* job id -> the request parseFile / parseText built for it
    cancelRequested,      \* the job ids cancelJob was called with
    startedCancelled,     \* the jobs whose id was in the set when their parse arrived
    cancelledMidJob,      \* the jobs cancelJob was called for while they were running
    lastOp,               \* the state service's last operation: its name, argument, state before
    config,               \* config state service: _config
    rawYaml,              \* config state service: _rawYaml, as the document the text denotes
    errors,               \* config state service: _errors
    validationIssues,     \* config state service: _validationIssues
    selectedNode,         \* config state service: _selectedNode
    configOp              \* the config state service's last operation: name, argument, config before

clientVars == <<jobCounter, readers>>

workerVars == <<activeCancellations, run>>

\* The state service's fields, and the record of its last operation.
storeVars ==
    <<allRecords, loadedFiles, filters, parseProgress, isLoading, selectedRecord,
      totalParseErrors, sortDirection, activeJobs, lastOp>>

\* What the model records about a run, beside the program's own state.
cancelVars == <<cancelRequested, startedCancelled, cancelledMidJob>>

\* The config state service's fields, and the record of its last operation.
configVars == <<config, rawYaml, errors, validationIssues, selectedNode, configOp>>

vars ==
    <<jobCounter, readers, toWorker, activeCancellations, run, fromWorker,
      allRecords, loadedFiles, filters, parseProgress, isLoading, selectedRecord,
      totalParseErrors, sortDirection, activeJobs,
      delivered, submitted, cancelRequested, startedCancelled, cancelledMidJob,
      lastOp, config, rawYaml, errors, validationIssues, selectedNode, configOp>>

\* ------------------------------------------------------------- the client
\* generateJobId: `job-${++jobCounter}-${Date.now().toString(36)}`. Ids are
\* only compared for equality, which the counter decides: the id is the counter.
generateJobId(counter) == counter

ParseRequest(jobId, fileName, content) ==
    [type |-> "parse", jobId |-> jobId, fileName |-> fileName,
     content |-> content, chunkSize |-> ChunkSize]

CancelRequest(jobId) == [type |-> "cancel", jobId |-> jobId]

ErrorEvent(jobId) == [type |-> "error", jobId |-> jobId]

\* sendToWorker / getWorker().postMessage
sendToWorker(request) == toWorker' = Append(toWorker, request)

\* handleWorkerMessage and worker.onerror: the event the subjects emit for a
\* response.
handleWorkerMessage(msg) ==
    IF msg.type = "uncaught" THEN ErrorEvent(NoJob) ELSE msg

\* parseFile: a new id, a FileReader started; the id (jobCounter') is returned
\* at once, the request is built when the reader fires.
parseFile(file) ==
    /\ jobCounter < MaxJobs
    /\ jobCounter' = jobCounter + 1
    /\ readers' = readers \cup
          {ParseRequest(generateJobId(jobCounter'), file.name, file.content)}
    /\ UNCHANGED toWorker

\* reader.onload
readerOnLoad(request) ==
    /\ request \in readers
    /\ readers' = readers \ {request}
    /\ sendToWorker(request)
    /\ UNCHANGED jobCounter

\* reader.onerror: error$ emits ErrorEvent(request.jobId).
readerOnError(request) ==
    /\ request \in readers
    /\ readers' = readers \ {request}
    /\ UNCHANGED <<jobCounter, toWorker>>

\* parseText: a new id (jobCounter'), the request posted at once.
parseText(text, fileName) ==
    /\ jobCounter < MaxJobs
    /\ jobCounter' = jobCounter + 1
    /\ sendToWorker(ParseRequest(generateJobId(jobCounter'), fileName, text))
    /\ UNCHANGED readers

\* cancelJob
cancelJob(jobId) ==
    /\ sendToWorker(CancelRequest(jobId))
    /\ UNCHANGED clientVars

\* worker.onmessage / worker.onerror take the next response; the subjects emit
\* handleWorkerMessage(Head(fromWorker)).
takeResponse ==
    /\ fromWorker # <<>>
    /\ fromWorker' = Tail(fromWorker)

\* ------------------------------------------------------ the worker's steps
\* The idle worker takes the next request.
WorkerReceive ==
    /\ run.phase = "idle"
    /\ toWorker # <<>>
    /\ LET msg == Head(toWorker)
           r == onWorkerMessage(msg, activeCancellations)
       IN /\ toWorker' = Tail(toWorker)
          /\ run' = r.run
          /\ activeCancellations' = r.cancels
          /\ fromWorker' = fromWorker \o r.out
          /\ startedCancelled' =
                IF msg.type = "parse" /\ msg.jobId \in activeCancellations
                THEN startedCancelled \cup {msg.jobId} ELSE startedCancelled
    /\ UNCHANGED <<clientVars, storeVars, delivered, submitted, cancelRequested,
                   cancelledMidJob, configVars>>

\* The running job goes on: one loop iteration, or the flush.
WorkerStep ==
    /\ run.phase # "idle"
    /\ LET r == JobStep(run, activeCancellations) IN
       /\ run' = r.run
       /\ activeCancellations' = r.cancels
       /\ fromWorker' = fromWorker \o r.out
    /\ UNCHANGED <<clientVars, toWorker, storeVars, delivered, submitted, cancelVars,
                   configVars>>

\* --------------------------------------------------------- the state service
\* createDefaultFilterState, with the httpMethods and httpPath that
\* applyFilters and the log table read from the filter state.
createDefaultFilterState ==
    [severities |-> <<>>, searchText |-> <<>>, timeRange |-> [start |-> Null, end |-> Null],
     services |-> <<>>, httpStatusCategories |-> <<>>, httpMethods |-> <<>>,
     httpPath |-> <<>>, traceId |-> <<>>]

RotatedName == "otel-2024-01-15T10-30-00.000.json"

\* isRotatedFile: the name ends in a timestamp before .json.
isRotatedFile(fileName) == fileName = RotatedName

\* The stable ascending sort by timestamp of merged.sort(...), over valid
\* timestamps.
InsertByTimestamp(sorted, r) ==
    LET n == Cardinality({k \in 1..Len(sorted) : sorted[k].timestamp.ms <= r.timestamp.ms})
    IN  SubSeq(sorted, 1, n) \o <<r>> \o SubSeq(sorted, n + 1, Len(sorted))

RECURSIVE SortByTimestamp(_)
SortByTimestamp(s) ==
    IF s = <<>> THEN <<>>
    ELSE InsertByTimestamp(SortByTimestamp(SubSeq(s, 1, Len(s) - 1)), s[Len(s)])

\* What merged.sort((a, b) => a.timestamp.getTime() - b.timestamp.getTime())
\* can leave: the stable ascending order when every timestamp is valid. With
\* an invalid Date the comparator returns NaN (taken as 0), it is no
\* consistent comparator and the order is implementation-defined: any
\* arrangement of the records.
sortOutcomes(merged) ==
    IF \A k \in 1..Len(merged) : merged[k].timestamp.valid
    THEN {SortByTimestamp(merged)}
    ELSE {[k \in 1..Len(merged) |-> merged[p[k]]] : p \in Permutations(1..Len(merged))}

\* mergeChunk keeping only the chunk's records.
mergeChunkReplacing(existing, records) == sortOutcomes(records)

\* mergeChunk without the filter on the ids already stored.
mergeChunkUnfiltered(existing, records) == sortOutcomes(existing \o records)

\* The update of _allRecords by a chunk: the records whose id is not in the
\* store yet are appended, and the whole is sorted. The stores it can leave.
mergeChunk(existing, records) ==
    LET existingIds == {existing[k].id : k \in 1..Len(existing)}
        newRecords == SelectSeq(records, LAMBDA r : r.id \notin existingIds)
    IN  sortOutcomes(existing \o newRecords)

\* Map.delete
MapDelete(map, key) == [k \in DOMAIN map \ {key} |-> map[k]]

\* The chunk$ subscriber without the update of _totalParseErrors.
onChunkUncounted(chunk) ==
    /\ allRecords' \in mergeChunk(allRecords, chunk.records)
    /\ UNCHANGED <<loadedFiles, filters, parseProgress, isLoading, selectedRecord,
                   totalParseErrors, sortDirection, activeJobs>>

\* The chunk$ subscriber.
onChunk(chunk) ==
    /\ allRecords' \in mergeChunk(allRecords, chunk.records)
    /\ totalParseErrors' =
          IF chunk.parseErrors > 0 THEN totalParseErrors + chunk.parseErrors
          ELSE totalParseErrors
    /\ UNCHANGED <<loadedFiles, filters, parseProgress, isLoading, selectedRecord,
                   sortDirection, activeJobs>>

\* The progress$ subscriber.
onProgress(progress) ==
    /\ parseProgress' =
          [jobId |-> progress.jobId,
           fileName |-> IF progress.jobId \in DOMAIN activeJobs
                        THEN activeJobs[progress.jobId].fileName ELSE "",
           percent |-> progress.percent,
           totalLines |-> progress.totalLines,
           processedLines |-> progress.processedLines]
    /\ UNCHANGED <<allRecords, loadedFiles, filters, isLoading, selectedRecord,
                   totalParseErrors, sortDirection, activeJobs>>

\* The complete$ subscriber without activeJobs.delete(complete.jobId).
onCompleteKeepingJob(complete) ==
    /\ loadedFiles' =
          IF complete.jobId \in DOMAIN activeJobs
          THEN Append(loadedFiles,
                      [fileName |-> activeJobs[complete.jobId].fileName,
                       fileSize |-> activeJobs[complete.jobId].fileSize,
                       recordCount |-> complete.totalRecords,
                       parseErrors |-> complete.totalParseErrors,
                       isRotated |-> isRotatedFile(activeJobs[complete.jobId].fileName)])
          ELSE loadedFiles
    /\ activeJobs' = activeJobs
    /\ IF DOMAIN activeJobs' = {}
       THEN isLoading' = FALSE /\ parseProgress' = Null
       ELSE UNCHANGED <<isLoading, parseProgress>>
    /\ UNCHANGED <<allRecords, filters, selectedRecord, totalParseErrors, sortDirection>>

\* The complete$ subscriber (loadedAt, the wall clock, is left out).
onComplete(complete) ==
    /\ loadedFiles' =
          IF complete.jobId \in DOMAIN activeJobs
          THEN Append(loadedFiles,
                      [fileName |-> activeJobs[complete.jobId].fileName,
                       fileSize |-> activeJobs[complete.jobId].fileSize,
                       recordCount |-> complete.totalRecords,
                       parseErrors |-> complete.totalParseErrors,
                       isRotated |-> isRotatedFile(activeJobs[complete.jobId].fileName)])
          ELSE loadedFiles
    /\ activeJobs' = MapDelete(activeJobs, complete.jobId)
    /\ IF DOMAIN activeJobs' = {}
       THEN isLoading' = FALSE /\ parseProgress' = Null
       ELSE UNCHANGED <<isLoading, parseProgress>>
    /\ UNCHANGED <<allRecords, filters, selectedRecord, totalParseErrors, sortDirection>>

\* The error$ subscriber.
onError(err) ==
    /\ activeJobs' = MapDelete(activeJobs, err.jobId)
    /\ isLoading' = IF DOMAIN activeJobs' = {} THEN FALSE ELSE isLoading
    /\ UNCHANGED <<allRecords, loadedFiles, filters, parseProgress, selectedRecord,
                   totalParseErrors, sortDirection>>

\* An event of the subjects reaches the state service's subscriber for it.
subscribeToParser(event) ==
    CASE event.type = "chunk" -> onChunk(event)
      [] event.type = "progress" -> onProgress(event)
      [] event.type = "complete" -> onComplete(event)
      [] event.type = "error" -> onError(event)

loadFile(file) ==
    /\ isLoading' = TRUE
    /\ parseFile(file)
    /\ activeJobs' = activeJobs @@
          (generateJobId(jobCounter') :>
              [fileName |-> file.name, fileSize |-> ByteSize(file.content)])
    /\ UNCHANGED <<allRecords, loadedFiles, filters, parseProgress, selectedRecord,
                   totalParseErrors, sortDirection>>

loadText(text, fileName) ==
    /\ isLoading' = TRUE
    /\ parseText(text, fileName)
    /\ activeJobs' = activeJobs @@
          (generateJobId(jobCounter') :>
              [fileName |-> fileName, fileSize |-> ByteSize(text)])
    /\ UNCHANGED <<allRecords, loadedFiles, filters, parseProgress, selectedRecord,
                   totalParseErrors, sortDirection>>

\* ------------------------------------------------- the state service's views
\* new Set(array), array.includes: the values of a list.
Range(list) == {list[k] : k \in 1..Len(list)}

\* [...list].reverse()
Reverse(list) == [k \in 1..Len(list) |-> list[Len(list) + 1 - k]]

\* undefined, where a status category may be.
UndefinedCategory == [defined |-> FALSE, value |-> ""]

httpStatusToCategory(status) ==
    IF ~status.defined THEN UndefinedCategory
    ELSE IF status.value >= 200 /\ status.value < 300 THEN Present("2xx")
    ELSE IF status.value >= 300 /\ status.value < 400 THEN Present("3xx")
    ELSE IF status.value >= 400 /\ status.value < 500 THEN Present("4xx")
    ELSE IF status.value >= 500 THEN Present("5xx")
    ELSE UndefinedCategory

\* str?.toLowerCase().includes(searchLower) ?? false
IncludesLower(str, searchLower) ==
    str.defined /\ includes(toLowerCase(str.value), searchLower)

matchesTextSearch(record, searchLower) ==
    \/ includes(toLowerCase(record.message), searchLower)
    \/ IncludesLower(record.httpPath, searchLower)
    \/ IncludesLower(record.userId, searchLower)
    \/ IncludesLower(record.traceId, searchLower)
    \/ /\ record.tags.defined
       /\ \E k \in 1..Len(record.tags.value) :
             includes(toLowerCase(record.tags.value[k]), searchLower)
    \/ IncludesLower(record.serviceName, searchLower)
    \/ IncludesLower(record.workloadName, searchLower)

\* applyFilters with the severity filter applied when the list is empty too.
applyFiltersEmptyMatchesNothing(records, f) ==
    SelectSeq(records, LAMBDA r : r.severityText \in Range(f.severities))

\* applyFilters with the service filter run on records instead of result.
applyFiltersRestarting(records, f) ==
    LET bySeverity ==
            IF Len(f.severities) > 0
            THEN SelectSeq(records, LAMBDA r : r.severityText \in Range(f.severities))
            ELSE records
        byService ==
            IF Len(f.services) > 0
            THEN SelectSeq(records, LAMBDA r :
                    LET svc == Coalesce(r.serviceName, r.workloadName)
                    IN  Truthy(svc) /\ svc.value \in Range(f.services))
            ELSE bySeverity
    IN  IF f.searchText # <<>>
        THEN SelectSeq(byService, LAMBDA r : matchesTextSearch(r, toLowerCase(f.searchText)))
        ELSE byService

\* applyFilters: each filter of the state that is not empty narrows the
\* result of the ones before it. The filter state's traceId is not read.
applyFilters(records, f) ==
    LET bySeverity ==
            IF Len(f.severities) > 0
            THEN SelectSeq(records, LAMBDA r : r.severityText \in Range(f.severities))
            ELSE records
        byStart ==
            IF f.timeRange.start # Null
            THEN SelectSeq(bySeverity, LAMBDA r : TimeLeq(f.timeRange.start, r.timestamp))
            ELSE bySeverity
        byEnd ==
            IF f.timeRange.end # Null
            THEN SelectSeq(byStart, LAMBDA r : TimeLeq(r.timestamp, f.timeRange.end))
            ELSE byStart
        byService ==
            IF Len(f.services) > 0
            THEN SelectSeq(byEnd, LAMBDA r :
                    LET svc == Coalesce(r.serviceName, r.workloadName)
                    IN  Truthy(svc) /\ svc.value \in Range(f.services))
            ELSE byEnd
        byStatus ==
            IF Len(f.httpStatusCategories) > 0
            THEN SelectSeq(byService, LAMBDA r :
                    LET cat == httpStatusToCategory(r.httpStatusCode)
                    IN  cat.defined /\ cat.value \in Range(f.httpStatusCategories))
            ELSE byService
        byMethod ==
            IF Len(f.httpMethods) > 0
            THEN SelectSeq(byStatus, LAMBDA r :
                    Truthy(r.httpMethod) /\ r.httpMethod.value \in Range(f.httpMethods))
            ELSE byStatus
        byPath ==
            IF f.httpPath # <<>>
            THEN SelectSeq(byMethod, LAMBDA r : IncludesLower(r.httpPath, toLowerCase(f.httpPath)))
            ELSE byMethod
    IN  IF f.searchText # <<>>
        THEN SelectSeq(byPath, LAMBDA r : matchesTextSearch(r, toLowerCase(f.searchText)))
        ELSE byPath

\* filteredRecords without its descending branch.
filteredRecordsAlwaysAscending == applyFilters(allRecords, filters)

\* The computed signal filteredRecords.
filteredRecords ==
    LET filtered == applyFilters(allRecords, filters)
    IN  IF sortDirection = "desc" THEN Reverse(filtered) ELSE filtered

\* The earliest / latest of summaryStats, as its loop leaves them after the
\* first n records.
RECURSIVE earliestOf(_, _)
earliestOf(all, n) ==
    IF n = 0 THEN Null
    ELSE LET earliest == earliestOf(all, n - 1) IN
         IF earliest = Null \/ TimeLess(all[n].timestamp, earliest)
         THEN all[n].timestamp ELSE earliest

RECURSIVE latestOf(_, _)
latestOf(all, n) ==
    IF n = 0 THEN Null
    ELSE LET latest == latestOf(all, n - 1) IN
         IF latest = Null \/ TimeLess(latest, all[n].timestamp)
         THEN all[n].timestamp ELSE latest

\* summaryStats with the counts taken over the filtered records.
summaryStatsOfFiltered ==
    LET all == filteredRecords
        svcOf(r) == Coalesce(r.serviceName, r.workloadName)
        catOf(r) == httpStatusToCategory(r.httpStatusCode)
        named == {svcOf(all[k]).value : k \in {j \in 1..Len(all) : Truthy(svcOf(all[j]))}}
    IN  [totalRecords |-> Len(all),
         filteredRecords |-> Len(filteredRecords),
         severityCounts |->
            [s \in Range(ALL_SEVERITY_LEVELS) |->
                Cardinality({k \in 1..Len(all) : all[k].severityText = s})],
         serviceCounts |->
            [svc \in named |->
                Cardinality({k \in 1..Len(all) :
                    Truthy(svcOf(all[k])) /\ svcOf(all[k]).value = svc})],
         httpStatusCounts |->
            [c \in {"2xx", "3xx", "4xx", "5xx"} |->
                Cardinality({k \in 1..Len(all) :
                    catOf(all[k]).defined /\ catOf(all[k]).value = c})],
         timeRange |-> [earliest |-> earliestOf(all, Len(all)),
                        latest |-> latestOf(all, Len(all))],
         filesLoaded |-> Len(loadedFiles),
         totalParseErrors |-> totalParseErrors]

\* The computed signal summaryStats.
summaryStats ==
    LET all == allRecords
        svcOf(r) == Coalesce(r.serviceName, r.workloadName)
        catOf(r) == httpStatusToCategory(r.httpStatusCode)
        named == {svcOf(all[k]).value : k \in {j \in 1..Len(all) : Truthy(svcOf(all[j]))}}
    IN  [totalRecords |-> Len(all),
         filteredRecords |-> Len(filteredRecords),
         severityCounts |->
            [s \in Range(ALL_SEVERITY_LEVELS) |->
                Cardinality({k \in 1..Len(all) : all[k].severityText = s})],
         serviceCounts |->
            [svc \in named |->
                Cardinality({k \in 1..Len(all) :
                    Truthy(svcOf(all[k])) /\ svcOf(all[k]).value = svc})],
         httpStatusCounts |->
            [c \in {"2xx", "3xx", "4xx", "5xx"} |->
                Cardinality({k \in 1..Len(all) :
                    catOf(all[k]).defined /\ catOf(all[k]).value = c})],
         timeRange |-> [earliest |-> earliestOf(all, Len(all)),
                        latest |-> latestOf(all, Len(all))],
         filesLoaded |-> Len(loadedFiles),
         totalParseErrors |-> totalParseErrors]

\* updateFilters: { ...current, ...partial }
updateFilters(partial) ==
    /\ filters' = [f \in DOMAIN filters |->
                      IF f \in DOMAIN partial THEN partial[f] ELSE filters[f]]
    /\ UNCHANGED <<allRecords, loadedFiles, parseProgress, isLoading, selectedRecord,
                   totalParseErrors, sortDirection, activeJobs>>

resetFilters ==
    /\ filters' = createDefaultFilterState
    /\ UNCHANGED <<allRecords, loadedFiles, parseProgress, isLoading, selectedRecord,
                   totalParseErrors, sortDirection, activeJobs>>

toggleSortDirection ==
    /\ sortDirection' = IF sortDirection = "asc" THEN "desc" ELSE "asc"
    /\ UNCHANGED <<allRecords, loadedFiles, filters, parseProgress, isLoading,
                   selectedRecord, totalParseErrors, activeJobs>>

selectRecord(record) ==
    /\ selectedRecord' = record
    /\ UNCHANGED <<allRecords, loadedFiles, filters, parseProgress, isLoading,
                   totalParseErrors, sortDirection, activeJobs>>

\* removeFile without the update of _allRecords.
removeFileKeepingRecords(fileName) ==
    /\ loadedFiles' = SelectSeq(loadedFiles, LAMBDA f : f.fileName # fileName)
    /\ UNCHANGED <<allRecords, filters, parseProgress, isLoading, selectedRecord,
                   totalParseErrors, sortDirection, activeJobs>>

\* removeFile without the update of _loadedFiles.
removeFileKeepingMetadata(fileName) ==
    /\ allRecords' = SelectSeq(allRecords, LAMBDA r : r.sourceFile # fileName)
    /\ UNCHANGED <<loadedFiles, filters, parseProgress, isLoading, selectedRecord,
                   totalParseErrors, sortDirection, activeJobs>>

removeFile(fileName) ==
    /\ allRecords' = SelectSeq(allRecords, LAMBDA r : r.sourceFile # fileName)
    /\ loadedFiles' = SelectSeq(loadedFiles, LAMBDA f : f.fileName # fileName)
    /\ UNCHANGED <<filters, parseProgress, isLoading, selectedRecord,
                   totalParseErrors, sortDirection, activeJobs>>

\* clearAll without _selectedRecord.set(null).
clearAllKeepingSelection ==
    /\ allRecords' = <<>>
    /\ loadedFiles' = <<>>
    /\ filters' = createDefaultFilterState
    /\ parseProgress' = Null
    /\ isLoading' = FALSE
    /\ totalParseErrors' = 0
    /\ UNCHANGED <<selectedRecord, sortDirection, activeJobs>>

clearAll ==
    /\ allRecords' = <<>>
    /\ loadedFiles' = <<>>
    /\ filters' = createDefaultFilterState
    /\ selectedRecord' = Null
    /\ parseProgress' = Null
    /\ isLoading' = FALSE
    /\ totalParseErrors' = 0
    /\ UNCHANGED <<sortDirection, activeJobs>>

\* -------------------------------------------------- the collector config
\* A component of a section. Its settings (type, name, config, active) are
\* carried along unchanged by every operation and are left out.
OtelComponent(id, componentType) == [id |-> id, componentType |-> componentType]

\* A pipeline of the service section: its id and its three lists of ids.
OtelPipeline(id, receivers, processors, exporters) ==
    [id |-> id, receivers |-> receivers, processors |-> processors, exporters |-> exporters]

createEmptyConfig ==
    [receivers |-> <<>>, processors |-> <<>>, exporters |-> <<>>, connectors |-> <<>>,
     extensions |-> <<>>,
     service |-> [extensions |-> Undefined, pipelines |-> <<>>]]

\* The empty text: the document with no section.
EmptyYaml ==
    [receivers |-> <<>>, processors |-> <<>>, exporters |-> <<>>, connectors |-> <<>>,
     extensions |-> <<>>, service |-> Undefined]

\* The config state service as constructed.
ConfigInit ==
    /\ config = createEmptyConfig
    /\ rawYaml = EmptyYaml
    /\ errors = <<>>
    /\ validationIssues = <<>>
    /\ selectedNode = Null
    /\ configOp = [op |-> "constructor", arg |-> Null, before |-> Null]

\* -------------------------------------------------------- the initial state
\* The state service as constructed: the signals' initial values, no job.
StoreInit ==
    /\ allRecords = <<>>
    /\ loadedFiles = <<>>
    /\ filters = createDefaultFilterState
    /\ parseProgress = Null
    /\ isLoading = FALSE
    /\ selectedRecord = Null
    /\ totalParseErrors = 0
    /\ sortDirection = "asc"
    /\ activeJobs = <<>>
    /\ lastOp = [op |-> "constructor", arg |-> Null, before |-> Null]

Init ==
    /\ jobCounter = 0
    /\ readers = {}
    /\ toWorker = <<>>
    /\ activeCancellations = {}
    /\ run = IdleRun
    /\ fromWorker = <<>>
    /\ StoreInit
    /\ delivered = <<>>
    /\ submitted = <<>>
    /\ cancelRequested = {}
    /\ startedCancelled = {}
    /\ cancelledMidJob = {}
    /\ ConfigInit

\* ------------------------------------------------- the client and the worker
\* The parse job client called directly, with an observer on the four
\* subjects; the state service's signals stay as constructed.
\* The observer: the event is appended to the record of what was emitted.
Observe(event) == delivered' = Append(delivered, event)

\* The request built for the id just generated is recorded.
Submit(fileName, content) ==
    submitted' = submitted @@
        (generateJobId(jobCounter') :>
            ParseRequest(generateJobId(jobCounter'), fileName, content))

CallParseFile ==
    /\ \E name \in FileNames, content \in ProtocolContents :
          parseFile([name |-> name, content |-> content]) /\ Submit(name, content)
    /\ UNCHANGED <<workerVars, fromWorker, storeVars, delivered, cancelVars, configVars>>

CallParseText ==
    /\ \E content \in ProtocolContents :
          parseText(content, "pasted-text") /\ Submit("pasted-text", content)
    /\ UNCHANGED <<workerVars, fromWorker, storeVars, delivered, cancelVars, configVars>>

ReaderLoads ==
    /\ \E request \in readers : readerOnLoad(request)
    /\ UNCHANGED <<workerVars, fromWorker, storeVars, delivered, submitted, cancelVars,
                   configVars>>

ReaderFails ==
    /\ \E request \in readers :
          readerOnError(request) /\ Observe(ErrorEvent(request.jobId))
    /\ UNCHANGED <<workerVars, fromWorker, storeVars, submitted, cancelVars, configVars>>

\* Whether the running job has a cancellation poll ahead of it.
HasPollAhead(w) ==
    \/ w.phase = "single" /\ w.i < Len(w.items)
    \/ w.phase = "jsonl" /\ \E k \in w.i..(Len(w.items) - 1) : k % PollEvery = 0

\* A caller cancels a job whose id it holds, once.
CallCancelJob ==
    /\ \E jobId \in (1..jobCounter) \ cancelRequested :
          /\ cancelJob(jobId)
          /\ cancelRequested' = cancelRequested \cup {jobId}
          /\ cancelledMidJob' =
                IF run.jobId = jobId /\ HasPollAhead(run)
                THEN cancelledMidJob \cup {jobId} ELSE cancelledMidJob
    /\ UNCHANGED <<workerVars, fromWorker, storeVars, delivered, submitted,
                   startedCancelled, configVars>>

Deliver ==
    /\ takeResponse
    /\ Observe(handleWorkerMessage(Head(fromWorker)))
    /\ UNCHANGED <<clientVars, toWorker, workerVars, storeVars, submitted, cancelVars,
                   configVars>>

Next ==
    \/ CallParseFile
    \/ CallParseText
    \/ ReaderLoads
    \/ ReaderFails
    \/ CallCancelJob
    \/ WorkerReceive
    \/ WorkerStep
    \/ Deliver

Spec == Init /\ [][Next]_vars

\* ------------------------------------------ the state service over the client
\* The state service's fields, as one value.
storeState ==
    [allRecords |-> allRecords, loadedFiles |-> loadedFiles, filters |-> filters,
     parseProgress |-> parseProgress, isLoading |-> isLoading,
     selectedRecord |-> selectedRecord, totalParseErrors |-> totalParseErrors,
     sortDirection |-> sortDirection, activeJobs |-> activeJobs]

\* An operation of the state service is recorded with the state it found.
Called(op, arg) == lastOp' = [op |-> op, arg |-> arg, before |-> storeState]

\* The application as it is wired: the state service is the client's only
\* caller and only subscriber, and nothing calls cancelJob. The worker's run
\* of a job is taken in one step: no request reaches it while it runs, and the
\* main thread sees its responses only as they are delivered. Every event the
\* subjects emit is recorded in delivered, every operation of the state
\* service in lastOp.
RECURSIVE RunToEnd(_)
RunToEnd(r) ==
    IF r.run.phase = "idle" THEN r
    ELSE LET n == JobStep(r.run, r.cancels) IN
         RunToEnd(Out(n.run, n.cancels, r.out \o n.out))

\* A timeUnixNano of 22 digits or more: its milliseconds are beyond what a
\* Date holds.
OutOfRangeNanos == (MaxTimeValue + 1) * NanosPerMilli

\* The log records of the texts loaded: two ordinary times, one out of range.
StoreLogRecords == {LogRecord(0, "n"), LogRecord(3, "m"), LogRecord(OutOfRangeNanos, "x")}

\* A line of two identical log records, a line whose record has an
\* out-of-range time.
StoreLines ==
    {JsonLine(Envelope(<<LogRecord(0, "n"), LogRecord(0, "n")>>)),
     JsonLine(Envelope(<<LogRecord(OutOfRangeNanos, "x")>>))}

\* Each of these lines alone, a failing line followed by a line of two
\* records out of time order, and a pretty-printed array the worker cannot
\* walk.
StoreContents ==
    {JsonlContent(<<line>>) : line \in StoreLines}
    \cup {JsonlContent(<<BadLine, JsonLine(Envelope(<<LogRecord(3, "m"), LogRecord(0, "n")>>))>>)}
    \cup {PrettyContent("array", <<MalformedEnvelope>>, <<>>)}

StoreFileNames == {RotatedName}

CallLoadFile ==
    /\ \E name \in StoreFileNames, content \in StoreContents :
          /\ loadFile([name |-> name, content |-> content])
          /\ Called("loadFile", [name |-> name, content |-> content])
    /\ UNCHANGED <<workerVars, fromWorker, delivered, submitted, cancelVars, configVars>>

CallLoadText ==
    /\ \E content \in StoreContents :
          /\ loadText(content, "pasted-text")
          /\ Called("loadText", [name |-> "pasted-text", content |-> content])
    /\ UNCHANGED <<workerVars, fromWorker, delivered, submitted, cancelVars, configVars>>

StoreReaderLoads ==
    /\ \E request \in readers : readerOnLoad(request)
    /\ UNCHANGED <<workerVars, fromWorker, storeVars, delivered, submitted, cancelVars,
                   configVars>>

StoreReaderFails ==
    /\ \E request \in readers :
          /\ readerOnError(request)
          /\ subscribeToParser(ErrorEvent(request.jobId))
          /\ Called("error", ErrorEvent(request.jobId))
          /\ Observe(ErrorEvent(request.jobId))
    /\ UNCHANGED <<workerVars, fromWorker, submitted, cancelVars, configVars>>

WorkerRuns ==
    /\ run.phase = "idle"
    /\ toWorker # <<>>
    /\ LET r == RunToEnd(onWorkerMessage(Head(toWorker), activeCancellations)) IN
       /\ toWorker' = Tail(toWorker)
       /\ run' = r.run
       /\ activeCancellations' = r.cancels
       /\ fromWorker' = fromWorker \o r.out
    /\ UNCHANGED <<clientVars, storeVars, delivered, submitted, cancelVars, configVars>>

StoreDeliver ==
    /\ takeResponse
    /\ LET event == handleWorkerMessage(Head(fromWorker)) IN
          subscribeToParser(event) /\ Called(event.type, event) /\ Observe(event)
    /\ UNCHANGED <<clientVars, toWorker, workerVars, submitted, cancelVars, configVars>>

CallRemoveFile ==
    /\ \E name \in StoreFileNames \cup {"pasted-text"} :
          removeFile(name) /\ Called("removeFile", name)
    /\ UNCHANGED <<clientVars, toWorker, workerVars, fromWorker, delivered, submitted,
                   cancelVars, configVars>>

CallClearAll ==
    /\ clearAll
    /\ Called("clearAll", Null)
    /\ UNCHANGED <<clientVars, toWorker, workerVars, fromWorker, delivered, submitted,
                   cancelVars, configVars>>

\* The presentation layer sets a search text.
FilterUpdates == {[searchText |-> <<"m">>]}

CallUpdateFilters ==
    /\ \E partial \in FilterUpdates :
          updateFilters(partial) /\ Called("updateFilters", partial)
    /\ UNCHANGED <<clientVars, toWorker, workerVars, fromWorker, delivered, submitted,
                   cancelVars, configVars>>

CallResetFilters ==
    /\ resetFilters
    /\ Called("resetFilters", Null)
    /\ UNCHANGED <<clientVars, toWorker, workerVars, fromWorker, delivered, submitted,
                   cancelVars, configVars>>

CallToggleSortDirection ==
    /\ toggleSortDirection
    /\ Called("toggleSortDirection", Null)
    /\ UNCHANGED <<clientVars, toWorker, workerVars, fromWorker, delivered, submitted,
                   cancelVars, configVars>>

\* The presentation layer selects a record it is shown, or clears the selection.
CallSelectRecord ==
    /\ \E record \in {allRecords[k] : k \in 1..Len(allRecords)} \cup {Null} :
          selectRecord(record) /\ Called("selectRecord", record)
    /\ UNCHANGED <<clientVars, toWorker, workerVars, fromWorker, delivered, submitted,
                   cancelVars, configVars>>

StoreNext ==
    \/ CallLoadFile
    \/ CallLoadText
    \/ StoreReaderLoads
    \/ StoreReaderFails
    \/ WorkerRuns
    \/ StoreDeliver
    \/ CallRemoveFile
    \/ CallClearAll
    \/ CallUpdateFilters
    \/ CallResetFilters
    \/ CallToggleSortDirection
    \/ CallSelectRecord

StoreSpec == Init /\ [][StoreNext]_vars

\* ---------------------------------------------------- one job in the worker
\* A single submission through parseFile, with or without a cancelJob call
\* made before the FileReader fired: the request queue as reader.onload
\* leaves it, over every text within the bounds. The responses stay in
\* fromWorker, which is then everything the worker posted for the job.
JobInit ==
    \E content \in AllContents, cancelFirst \in BOOLEAN :
        LET request == ParseRequest(1, "a.json", content) IN
        /\ jobCounter = 1
        /\ readers = {}
        /\ submitted = (1 :> request)
        /\ toWorker = IF cancelFirst THEN <<CancelRequest(1), request>> ELSE <<request>>
        /\ cancelRequested = IF cancelFirst THEN {1} ELSE {}
        /\ activeCancellations = {}
        /\ run = IdleRun
        /\ fromWorker = <<>>
        /\ StoreInit
        /\ delivered = <<>>
        /\ startedCancelled = {}
        /\ cancelledMidJob = {}
        /\ ConfigInit

JobNext ==
    \/ WorkerReceive
    \/ WorkerStep

JobSpec == JobInit /\ [][JobNext]_vars

\* ------------------------------------------------- the views over a loaded text
\* The presentation layer over the state service: a text of log records that
\* differ in severity, time, resource, body and trace id is pasted and parsed,
\* while the filters are set and emptied one field at a time and the sort
\* direction is toggled.
ErrorRecord ==
    [timeUnixNano |-> 0, severityNumber |-> Present(17), severityText |-> Undefined,
     body |-> TextBody(<<"m">>), traceId |-> Present(<<"t", "1">>)]

\* A record with a structured body: no severity number, a severity text, and
\* message, http, user, trace and tags in the body.
HttpRecord ==
    [timeUnixNano |-> 2 * NanosPerMilli, severityNumber |-> UndefinedNumber,
     severityText |-> Present(<<"w", "a", "r", "n">>),
     body |-> [raw |-> <<"{", "}">>,
               json |-> Inner(Present(<<"G", "o">>), Present(<<"G", "E", "T">>),
                              Present(<<"/", "A">>), Present(404), Present(<<"u">>),
                              Present(<<"t", "2">>), Present(<< <<"x">> >>))],
     traceId |-> Undefined]

\* A record whose time is beyond what a Date holds.
LateRecord ==
    [timeUnixNano |-> (MaxTimeValue + 1) * NanosPerMilli, severityNumber |-> Present(9),
     severityText |-> Undefined, body |-> TextBody(<<"g">>), traceId |-> Undefined]

\* One line of a named service, one line of a resource whose service.name is
\* the empty string and that has a workload.name.
ViewLines ==
    <<JsonLine(ResourceEnvelope(Present(<<"s", "v", "c">>), Undefined,
                                <<HttpRecord, ErrorRecord>>)),
      JsonLine(ResourceEnvelope(Present(<<>>), Present(<<"w">>), <<ErrorRecord>>)),
      JsonLine(ResourceEnvelope(Undefined, Present(<<"w">>), <<LateRecord>>))>>

ViewContents ==
    {JsonlContent(<<ViewLines[1]>>),
     JsonlContent(<<ViewLines[1], ViewLines[2]>>),
     JsonlContent(<<ViewLines[2], ViewLines[3]>>)}

\* What the filter widgets pass to updateFilters: one field, set or emptied.
ViewFilterUpdates ==
    {[severities |-> v] : v \in {<<"ERROR">>, <<>>}}
    \cup {[searchText |-> v] : v \in {<<"G">>, <<>>}}
    \cup {[timeRange |-> [start |-> s, end |-> e]] :
            s \in {Date(1), Null}, e \in {Date(1), Null}}
    \cup {[services |-> v] : v \in {<< <<"s", "v", "c">> >>, <<>>}}
    \cup {[httpStatusCategories |-> v] : v \in {<<"4xx">>, <<>>}}
    \cup {[httpMethods |-> v] : v \in {<< <<"G", "E", "T">> >>, <<>>}}
    \cup {[httpPath |-> v] : v \in {<<"/", "a">>, <<>>}}
    \cup {[traceId |-> v] : v \in {<<"t", "1">>, <<>>}}

\* One text is pasted.
ViewLoadText ==
    /\ jobCounter = 0
    /\ \E content \in ViewContents : loadText(content, "pasted-text")
    /\ UNCHANGED <<workerVars, fromWorker, delivered, submitted, cancelVars, lastOp,
                   configVars>>

ViewDeliver ==
    /\ takeResponse
    /\ subscribeToParser(handleWorkerMessage(Head(fromWorker)))
    /\ UNCHANGED <<clientVars, toWorker, workerVars, delivered, submitted, cancelVars,
                   lastOp, configVars>>

ViewUpdateFilters ==
    /\ \E partial \in ViewFilterUpdates : updateFilters(partial)
    /\ UNCHANGED <<clientVars, toWorker, workerVars, fromWorker, delivered, submitted,
                   cancelVars, lastOp, configVars>>

ViewResetFilters ==
    /\ resetFilters
    /\ UNCHANGED <<clientVars, toWorker, workerVars, fromWorker, delivered, submitted,
                   cancelVars, lastOp, configVars>>

ViewToggleSortDirection ==
    /\ toggleSortDirection
    /\ UNCHANGED <<clientVars, toWorker, workerVars, fromWorker, delivered, submitted,
                   cancelVars, lastOp, configVars>>

ViewNext ==
    \/ ViewLoadText
    \/ WorkerRuns
    \/ ViewDeliver
    \/ ViewUpdateFilters
    \/ ViewResetFilters
    \/ ViewToggleSortDirection

ViewSpec == Init /\ [][ViewNext]_vars

\* ------------------------------------------------------------ observations
JobEventTypes == {"chunk", "progress", "complete"}

\* Everything the worker has posted so far, in order.
Posted ==
    SelectSeq(delivered, LAMBDA e : e.type \in JobEventTypes) \o fromWorker

\* The chunk, progress and complete messages posted for a job, in order.
PostedFor(jobId) ==
    SelectSeq(Posted, LAMBDA e : e.jobId = jobId /\ e.type \in JobEventTypes)

OfType(events, type) == SelectSeq(events, LAMBDA e : e.type = type)

\* reader.onerror fired for the job: its request never went to the worker.
ReaderFailed(jobId) ==
    \E k \in 1..Len(delivered) : delivered[k] = ErrorEvent(jobId)

\* The worker is through with a job: its request was posted and taken, and it
\* is not the running job.
WorkerDone(jobId) ==
    /\ jobId \in DOMAIN submitted
    /\ \A request \in readers : request.jobId # jobId
    /\ ~ReaderFailed(jobId)
    /\ \A k \in 1..Len(toWorker) :
          ~(toWorker[k].type = "parse" /\ toWorker[k].jobId = jobId)
    /\ run.jobId # jobId

\* Nothing is in flight: no reader pending, no request or response queued,
\* the worker idle.
Quiescent ==
    /\ readers = {}
    /\ toWorker = <<>>
    /\ run.phase = "idle"
    /\ fromWorker = <<>>

RECURSIVE ConcatRecords(_)
ConcatRecords(chunks) ==
    IF chunks = <<>> THEN <<>>
    ELSE Head(chunks).records \o ConcatRecords(Tail(chunks))

\* A non-blank line that fails: JSON.parse or flattenEnvelope throws.
LineFails(line) ==
    \/ line.kind = "bad"
    \/ line.kind = "json" /\ line.envelope.malformed

FailingLines(lines) == Cardinality({k \in 1..Len(lines) : LineFails(lines[k])})

\* The records of the valid lines of a text, in line order.
RECURSIVE LineRecords(_, _, _)
LineRecords(lines, fileName, k) ==
    IF k > Len(lines) THEN <<>>
    ELSE (IF lines[k].kind = "json" /\ ~lines[k].envelope.malformed
          THEN flattenEnvelope(lines[k].envelope, fileName, k).records
          ELSE <<>>)
         \o LineRecords(lines, fileName, k + 1)

\* The envelopes parseSingleJson ends up with, when it reaches its loop.
ResultingEnvelopes(content) ==
    IF content.parse = "fail" THEN KeptBlocks(content.blocks) ELSE content.envelopes

\* How many times a record occurs in a sequence of records.
Occurrences(records, r) == Cardinality({k \in 1..Len(records) : records[k] = r})

\* Two sequences hold the same records, each as many times.
SameRecords(s, t) ==
    /\ Len(s) = Len(t)
    /\ \A k \in 1..Len(s) : Occurrences(s, s[k]) = Occurrences(t, s[k])

\* ------------------------------------------------------------------ claims

\* C1: once cancelJob(J) has been called, no chunk, progress or complete event
\* carrying job id J is delivered to the subscribers: every step that delivers
\* such an event delivers it for a job no cancel was requested for.
C1_NoDeliveryAfterCancel ==
    [][Len(delivered') > Len(delivered) =>
        LET e == delivered'[Len(delivered')] IN
        e.type \in JobEventTypes => e.jobId \notin cancelRequested]_vars

\* C2: a job whose cancel request was posted after its parse request, while it
\* still had a poll point ahead of it, posts no complete event.
C2_CancelStopsAtNextPoll ==
    \A jobId \in cancelledMidJob : OfType(PostedFor(jobId), "complete") = <<>>

\* C3: a job whose cancel request reached the worker before its parse request
\* posts no progress, chunk or complete event, on either path.
C3_CancelBeforeStartIsSilent ==
    \A jobId \in startedCancelled : PostedFor(jobId) = <<>>

\* C4: a job that is not cancelled posts exactly one complete event, and it is
\* the last event posted for the job: never an event after a complete, and a
\* complete once the worker is through with the job.
C4_ExactlyOneCompleteLast ==
    \A jobId \in DOMAIN submitted \ cancelRequested :
        LET ev == PostedFor(jobId) IN
        /\ \A k \in 1..(Len(ev) - 1) : ev[k].type # "complete"
        /\ WorkerDone(jobId) => Len(ev) > 0 /\ ev[Len(ev)].type = "complete"

\* C5: a job for which no cancel is requested is never left with neither a
\* complete nor an error event carrying its id: once nothing is in flight any
\* more, one of the two has been delivered for it.
C5_TerminalEventForEveryJob ==
    Quiescent =>
        \A jobId \in DOMAIN submitted \ cancelRequested :
            \E k \in 1..Len(delivered) :
                /\ delivered[k].type \in {"complete", "error"}
                /\ delivered[k].jobId = jobId

\* C6: isLoading is false only if no submitted job is outstanding: whenever
\* the loading flag is clear, activeJobs is empty.
C6_LoadingClearsOnlyWhenNoJobOutstanding ==
    isLoading = FALSE => DOMAIN activeJobs = {}

\* C7: every chunk posted carries at most chunkSize records, and what is left
\* over at the end goes out as one final chunk of fewer than chunkSize
\* records: once a job has completed, its chunks carry all its records.
C7_ChunkWithinChunkSize ==
    /\ \A k \in 1..Len(Posted) :
          Posted[k].type = "chunk" =>
              Len(Posted[k].records) <= submitted[Posted[k].jobId].chunkSize
    /\ \A jobId \in DOMAIN submitted :
          LET ev == PostedFor(jobId)
              chunks == OfType(ev, "chunk")
              done == OfType(ev, "complete")
          IN  done # <<>> =>
                /\ Len(ConcatRecords(chunks)) = done[1].totalRecords
                /\ chunks # <<>> /\ done[1].totalRecords > 0 =>
                      Len(chunks[Len(chunks)].records) <= submitted[jobId].chunkSize

\* C8: on the pretty-printed path, when zero envelopes result (from the direct
\* parse or from the fallback), the job posts exactly one chunk, with no
\* records and parseErrors = 1, and then a complete with totalRecords = 0.
C8_ZeroEnvelopesIsAFailure ==
    \A jobId \in DOMAIN submitted \ startedCancelled :
        LET content == submitted[jobId].content
            ev == PostedFor(jobId)
        IN  (/\ WorkerDone(jobId)
             /\ content.isPrettyPrinted
             /\ ResultingEnvelopes(content) = <<>>)
            => /\ OfType(ev, "chunk") = <<ChunkMsg(jobId, <<>>, 1)>>
               /\ Len(OfType(ev, "complete")) = 1
               /\ ev[Len(ev)].type = "complete"
               /\ ev[Len(ev)].totalRecords = 0

\* C9: on the JSON-Lines path a failing line never stops the job: a job not
\* cancelled at its start runs to its complete event, the chunks carry the
\* records of every valid line in line order, totalRecords counts them, and
\* totalParseErrors (and the sum of the chunks' parseErrors) is the number of
\* non-blank lines that failed.
C9_JsonlSurvivesBadLines ==
    \A jobId \in DOMAIN submitted \ startedCancelled :
        LET request == submitted[jobId]
            ev == PostedFor(jobId)
            chunks == OfType(ev, "chunk")
            expected == LineRecords(request.content.lines, request.fileName, 1)
            failing == FailingLines(request.content.lines)
        IN  (WorkerDone(jobId) /\ ~request.content.isPrettyPrinted)
            => /\ Len(ev) > 0
               /\ ev[Len(ev)] = CompleteMsg(jobId, Len(expected), failing)
               /\ ConcatRecords(chunks) = expected
               /\ SumSeq([k \in 1..Len(chunks) |-> chunks[k].parseErrors]) = failing

\* C9's case: a finished JSON-Lines job with a failing line between two valid
\* ones, completed with the records of both and one parse error.
C9_Witness ==
    \E jobId \in DOMAIN submitted :
        LET lines == submitted[jobId].content.lines
            ev == PostedFor(jobId)
        IN  /\ WorkerDone(jobId)
            /\ jobId \notin startedCancelled
            /\ Len(lines) = 3
            /\ lines[1].kind = "json" /\ Len(lines[1].envelope.logRecords) = 1
            /\ lines[2].kind = "bad"
            /\ lines[3].kind = "json" /\ Len(lines[3].envelope.logRecords) = 1
            /\ Len(ev) > 0
            /\ ev[Len(ev)] = CompleteMsg(jobId, 2, 1)

\* C10: no two records of allRecords have the same id.
C10_AllRecordsIdsDistinct ==
    \A i, j \in 1..Len(allRecords) : i # j => allRecords[i].id # allRecords[j].id

\* C11: applying the chunk that was just applied once more leaves allRecords
\* with the same number of records, and the same records, whatever the store
\* held before the first application.
C11_SameChunkTwiceIsOnce ==
    lastOp.op = "chunk" =>
        \A twice \in mergeChunk(allRecords, lastOp.arg.records) :
            SameRecords(twice, allRecords)

\* C11's case: a chunk with records was applied to a store that already held
\* records and added some.
C11_Witness ==
    /\ lastOp.op = "chunk"
    /\ lastOp.arg.records # <<>>
    /\ lastOp.before.allRecords # <<>>
    /\ Len(allRecords) > Len(lastOp.before.allRecords)

\* C12: allRecords is ordered ascending by timestamp: each record's timestamp
\* is less than or equal to the next one's.
C12_AllRecordsAscending ==
    \A k \in 1..(Len(allRecords) - 1) :
        TimeLeq(allRecords[k].timestamp, allRecords[k + 1].timestamp)

\* C13: no operation other than removeFile and clearAll removes or changes a
\* stored record: after a chunk, progress, complete or error event, a load, a
\* filter update or reset, a sort toggle or a selection, every record the
\* store held is still in it, as many times; removeFile(name) takes out only
\* records whose sourceFile is name.
C13_RecordsLeaveOnlyByRemoval ==
    lastOp.op \notin {"constructor", "clearAll"} =>
        \A k \in 1..Len(lastOp.before.allRecords) :
            LET r == lastOp.before.allRecords[k] IN
            \/ lastOp.op = "removeFile" /\ r.sourceFile = lastOp.arg
            \/ Occurrences(allRecords, r) >= Occurrences(lastOp.before.allRecords, r)

\* C13's case: a chunk of one file was merged into a store holding records of
\* another file.
C13_Witness ==
    /\ lastOp.op = "chunk"
    /\ lastOp.arg.records # <<>>
    /\ \E k \in 1..Len(lastOp.before.allRecords) :
          lastOp.before.allRecords[k].sourceFile # lastOp.arg.records[1].sourceFile

\* The records of a store that come from a file, in order.
RecordsOf(records, fileName) == SelectSeq(records, LAMBDA r : r.sourceFile = fileName)

\* The metadata entries of a file, in order.
EntriesOf(files, fileName) == SelectSeq(files, LAMBDA f : f.fileName = fileName)

\* The file names a store knows of.
FileNamesIn(store) ==
    {store.allRecords[k].sourceFile : k \in 1..Len(store.allRecords)}
    \cup {store.loadedFiles[k].fileName : k \in 1..Len(store.loadedFiles)}

\* C14: right after removeFile(name) allRecords holds no record whose
\* sourceFile is name and loadedFiles no entry whose fileName is name; the
\* records and the entries of every other file are the ones there were, and
\* the filters and the parse-error total are unchanged.
C14_RemoveFileRemovesOnlyThatFile ==
    lastOp.op = "removeFile" =>
        /\ RecordsOf(allRecords, lastOp.arg) = <<>>
        /\ EntriesOf(loadedFiles, lastOp.arg) = <<>>
        /\ \A other \in (FileNamesIn(lastOp.before) \cup FileNamesIn(storeState))
                            \ {lastOp.arg} :
              /\ RecordsOf(allRecords, other) = RecordsOf(lastOp.before.allRecords, other)
              /\ EntriesOf(loadedFiles, other) = EntriesOf(lastOp.before.loadedFiles, other)
        /\ filters = lastOp.before.filters
        /\ totalParseErrors = lastOp.before.totalParseErrors

\* C14's case: removeFile of a file with records and a metadata entry, from a
\* store that also holds records and an entry of another file, with a filter
\* set and parse errors counted.
C14_Witness ==
    /\ lastOp.op = "removeFile"
    /\ RecordsOf(lastOp.before.allRecords, lastOp.arg) # <<>>
    /\ EntriesOf(lastOp.before.loadedFiles, lastOp.arg) # <<>>
    /\ \E other \in FileNamesIn(lastOp.before) \ {lastOp.arg} :
          /\ RecordsOf(lastOp.before.allRecords, other) # <<>>
          /\ EntriesOf(lastOp.before.loadedFiles, other) # <<>>
    /\ lastOp.before.filters # createDefaultFilterState
    /\ lastOp.before.totalParseErrors > 0

\* C15: removeFile is atomic for readers. The two signal writes of removeFile
\* are one synchronous handler and readers (computed signals, the view) run
\* between handlers, so what a reader can observe is the state an operation
\* leaves: of a file that had both records and a metadata entry, no operation
\* leaves the records gone with the entry still listed, or the entry gone
\* with records still stored.
C15_NoPartlyRemovedFile ==
    lastOp.op # "constructor" =>
        \A name \in FileNamesIn(lastOp.before) :
            (/\ RecordsOf(lastOp.before.allRecords, name) # <<>>
             /\ EntriesOf(lastOp.before.loadedFiles, name) # <<>>)
            => (RecordsOf(allRecords, name) = <<>> <=> EntriesOf(loadedFiles, name) = <<>>)

\* C15's case: removeFile has just taken out a file that had records and an
\* entry, while another file is partly ingested (records, no entry yet).
C15_Witness ==
    /\ lastOp.op = "removeFile"
    /\ RecordsOf(lastOp.before.allRecords, lastOp.arg) # <<>>
    /\ EntriesOf(lastOp.before.loadedFiles, lastOp.arg) # <<>>
    /\ \E other \in FileNamesIn(storeState) :
          RecordsOf(allRecords, other) # <<>> /\ EntriesOf(loadedFiles, other) = <<>>

C17_TotalIsSumOfChunkErrors ==
    CASE lastOp.op = "constructor" -> totalParseErrors = 0
      [] lastOp.op = "clearAll" -> totalParseErrors = 0
      [] lastOp.op = "chunk" ->
            totalParseErrors = lastOp.before.totalParseErrors + lastOp.arg.parseErrors
      [] OTHER -> totalParseErrors = lastOp.before.totalParseErrors

\* C17's case: a chunk with parse errors was applied to a store whose total
\* already counted the errors of another job.
C17_Witness ==
    /\ lastOp.op = "chunk"
    /\ lastOp.arg.parseErrors > 0
    /\ lastOp.before.totalParseErrors > 0

\* C18: right after clearAll allRecords and loadedFiles are empty, the filters
\* are the default filter state, no record is selected and the parse-error
\* total is 0, whatever the state was before.
C18_ClearAllResets ==
    lastOp.op = "clearAll" =>
        /\ allRecords = <<>>
        /\ loadedFiles = <<>>
        /\ filters = createDefaultFilterState
        /\ selectedRecord = Null
        /\ totalParseErrors = 0

\* C18's case: clearAll on a store with records, a listed file, a filter set,
\* a record selected and parse errors counted.
C18_Witness ==
    /\ lastOp.op = "clearAll"
    /\ lastOp.before.allRecords # <<>>
    /\ lastOp.before.loadedFiles # <<>>
    /\ lastOp.before.filters # createDefaultFilterState
    /\ lastOp.before.selectedRecord # Null
    /\ lastOp.before.totalParseErrors > 0

\* C19: an error event for a job leaves allRecords, loadedFiles and the
\* parse-error total unchanged, takes the job out of the outstanding set (the
\* job whose id it carries, and in any case a job that was outstanding), and
\* no complete event for the same job id is delivered after it.
C19_ErrorAbandonsTheJob ==
    /\ lastOp.op = "error" =>
          /\ allRecords = lastOp.before.allRecords
          /\ loadedFiles = lastOp.before.loadedFiles
          /\ totalParseErrors = lastOp.before.totalParseErrors
          /\ lastOp.arg.jobId \notin DOMAIN activeJobs
          /\ \E jobId \in DOMAIN lastOp.before.activeJobs : jobId \notin DOMAIN activeJobs
    /\ \A i, j \in 1..Len(delivered) :
          (i < j /\ delivered[i].type = "error" /\ delivered[j].type = "complete")
          => delivered[i].jobId # delivered[j].jobId

\* The only place a job id leaves activeCancellations is the poll that finds
\* it: a job found at a poll is one whose id was in the set when its parse
\* request arrived and is in it no longer.
FoundAtPoll(jobId) == jobId \in startedCancelled /\ jobId \notin activeCancellations

Percents(jobId) ==
    LET p == OfType(PostedFor(jobId), "progress")
    IN  [k \in 1..Len(p) |-> p[k].percent]

\* C21: within one job the percent of successive progress messages never
\* decreases, and every percent lies in 0..100: on the JSON-Lines path, and on
\* the pretty-printed path (10, then 50, then 50 plus the flattened share).
C21_ProgressNeverDecreases ==
    \A jobId \in DOMAIN submitted :
        LET p == Percents(jobId) IN
        /\ \A k \in 1..Len(p) : p[k] \in 0..100
        /\ \A k \in 1..(Len(p) - 1) : p[k] <= p[k + 1]
        /\ submitted[jobId].content.isPrettyPrinted /\ Len(p) >= 1 => p[1] = 10
        /\ submitted[jobId].content.isPrettyPrinted /\ Len(p) >= 2 => p[2] = 50
        /\ submitted[jobId].content.isPrettyPrinted =>
              \A k \in 3..Len(p) : p[k] >= 50

\* C21's case: a pretty-printed text of two full envelopes has posted 10, 50,
\* and a progress after each envelope's chunk.
C21_Witness ==
    \E jobId \in DOMAIN submitted :
        /\ submitted[jobId].content.isPrettyPrinted
        /\ Percents(jobId) = <<10, 50, 75, 100>>

\* The criteria of a filter state: its lists, its strings and its time bounds.
FilterCriteria ==
    {"severities", "searchText", "start", "end", "services", "httpStatusCategories",
     "httpMethods", "httpPath", "traceId"}

\* The filter state with one criterion emptied: [] for a list, '' for a
\* string, null for a time bound.
Emptied(f, criterion) ==
    CASE criterion = "start" -> [f EXCEPT !.timeRange.start = Null]
      [] criterion = "end" -> [f EXCEPT !.timeRange.end = Null]
      [] OTHER -> [f EXCEPT ![criterion] = <<>>]

\* The criteria of a filter state that are not empty.
ActiveCriteria(f) == {c \in FilterCriteria : Emptied(f, c) # f}

\* The filter state with only the given criteria left.
RECURSIVE Restricted(_, _)
Restricted(f, keep) ==
    LET drop == ActiveCriteria(f) \ keep IN
    IF drop = {} THEN f
    ELSE Restricted(Emptied(f, CHOOSE c \in drop : TRUE), keep)

\* s can be obtained from t by leaving records out, the order kept.
RECURSIVE IsSubsequence(_, _)
IsSubsequence(s, t) ==
    IF s = <<>> THEN TRUE
    ELSE IF t = <<>> THEN FALSE
    ELSE IF Head(s) = Head(t) THEN IsSubsequence(Tail(s), Tail(t))
    ELSE IsSubsequence(s, Tail(t))

Divisions(f) == SUBSET ActiveCriteria(f)

C24_TraceIdFilterKeepsThatTraceOnly ==
    filters.traceId # <<>> =>
        \A k \in 1..Len(filteredRecords) :
            filteredRecords[k].traceId = Present(filters.traceId)

\* What toggleSortDirection may not touch.
SortFrame == <<allRecords, filters, selectedRecord, loadedFiles, activeJobs,
               parseProgress, totalParseErrors, isLoading>>

RECURSIVE SumOfCounts(_, _)
SumOfCounts(counts, keys) ==
    IF keys = {} THEN 0
    ELSE LET key == CHOOSE k \in keys : TRUE
         IN  counts[key] + SumOfCounts(counts, keys \ {key})

\* summaryStats without its filteredRecords field.
UnfilteredStats(stats) == [field \in DOMAIN stats \ {"filteredRecords"} |-> stats[field]]

LoadedFileNames == {loadedFiles[k].fileName : k \in 1..Len(loadedFiles)}

\* C27: summaryStats.filesLoaded is the number of distinct file names among
\* the loaded files, also after a file of the same name was loaded twice.
C27_FilesLoadedCountsDistinctNames ==
    summaryStats.filesLoaded = Cardinality(LoadedFileNames)

\* The digits of Number.prototype.toString(radix).
Digits == <<"0", "1", "2", "3", "4", "5", "6", "7", "8", "9", "a", "b", "c", "d", "e",
            "f", "g", "h", "i", "j", "k", "l", "m", "n", "o", "p", "q", "r", "s", "t",
            "u", "v", "w", "x", "y", "z">>

\* n.toString(radix) of a non-negative integer, as a sequence of characters.
RECURSIVE toString(_, _)
toString(n, radix) ==
    IF n < radix THEN <<Digits[n + 1]>>
    ELSE toString(n \div radix, radix) \o <<Digits[(n % radix) + 1]>>

\* Values of Date.now() at a call: the same millisecond, the next one, and
\* values whose base-36 text has one digit and two.
ClockValues == {0, 1, 2, 10, 35, 36, 37, 73}

\* The job id with the counter left out of it.
JobIdOfTheClock(counter, now) == <<"j", "o", "b", "-">> \o toString(now, 36)

\* The text generateJobId returns for the incremented counter at a time:
\* `job-${++this.jobCounter}-${Date.now().toString(36)}`.
JobIdText(counter, now) ==
    <<"j", "o", "b", "-">> \o toString(counter, 10) \o <<"-">> \o toString(now, 36)

\* C28: every call of parseFile or parseText returns a job id different from
\* the id of every earlier call on the same client, whatever the clock reads
\* at the two calls (the same millisecond included), and every submission
\* is recorded under an id of its own.
C28_JobIdsAreFresh ==
    /\ \A earlier \in 1..jobCounter, later \in 1..jobCounter :
          earlier < later =>
              \A before \in ClockValues, now \in ClockValues :
                  before <= now => JobIdText(earlier, before) # JobIdText(later, now)
    /\ Cardinality(DOMAIN submitted) = jobCounter
    /\ \A jobId \in DOMAIN submitted : submitted[jobId].jobId = jobId

\* C28's case: two calls have been made, one of parseFile and one of
\* parseText, and both requests are on their way or with the worker.
C28_Witness ==
    /\ jobCounter >= 2
    /\ Cardinality(DOMAIN submitted) >= 2
    /\ \E jobId \in DOMAIN submitted : submitted[jobId].fileName = "pasted-text"
    /\ \E jobId \in DOMAIN submitted : submitted[jobId].fileName # "pasted-text"

\* ------------------------------------------------- the helpers called directly
\* The helpers of otlp-log-helpers.ts called the way their unit tests call
\* them: submitted holds the arguments of the calls to make, delivered what
\* the calls made so far returned.
IdCall(timeUnixNano, severityNumber, rawBody, sourceFile, lineNumber) ==
    [fn |-> "generateLogRecordId", timeUnixNano |-> timeUnixNano,
     severityNumber |-> severityNumber, rawBody |-> rawBody,
     sourceFile |-> sourceFile, lineNumber |-> lineNumber]

SeverityCall(severityNumber, severityText) ==
    [fn |-> "normalizeSeverity", severityNumber |-> severityNumber,
     severityText |-> severityText]

\* Bodies that differ in their first characters, in a later character only,
\* and in length only.
HelperBodies ==
    {<<"a", "b", "c", "d">>, <<"a", "b", "c", "e">>, <<"a", "b", "c", "d", "e">>,
     <<"x", "b", "c", "d">>, <<"a">>}

IdCalls ==
    {IdCall(t, s, b, f, n) :
        t \in {0, 1}, s \in {0, 9}, b \in HelperBodies, f \in {"a.log", "b.log"},
        n \in {1, 2}}

\* Severity numbers absent, zero, negative, in every band and beyond the last.
HelperSeverityNumbers ==
    {UndefinedNumber} \cup {Present(n) : n \in (-1)..26}

\* Severity texts absent, empty, with one keyword in any case, with two
\* keywords, and with none.
HelperSeverityTexts ==
    {Undefined, Present(<<>>),
     Present(<<"t", "r", "a", "c", "e">>), Present(<<"D", "e", "b", "u", "g">>),
     Present(<<"I", "N", "F", "O">>), Present(<<"w", "a", "r", "n", "i", "n", "g">>),
     Present(<<"E", "r", "r">>), Present(<<"e", "r", "r", "o", "r">>),
     Present(<<"F", "a", "t", "a", "l">>),
     Present(<<"c", "r", "i", "t", "i", "c", "a", "l">>),
     Present(<<"F", "A", "T", "A", "L", " ", "E", "R", "R", "O", "R">>),
     Present(<<"v", "e", "r", "b", "o", "s", "e">>)}

SeverityCalls ==
    {SeverityCall(n, text) : n \in HelperSeverityNumbers, text \in HelperSeverityTexts}

HelperInit ==
    /\ jobCounter = 0
    /\ readers = {}
    /\ toWorker = <<>>
    /\ activeCancellations = {}
    /\ run = IdleRun
    /\ fromWorker = <<>>
    /\ StoreInit
    /\ delivered = <<>>
    /\ submitted \in {<<a, b>> : a \in IdCalls, b \in IdCalls}
                        \cup {<<c>> : c \in SeverityCalls}
    /\ cancelRequested = {}
    /\ startedCancelled = {}
    /\ cancelledMidJob = {}
    /\ ConfigInit

\* The next call to make.
NextCall == submitted[Len(delivered) + 1]

CallGenerateLogRecordId ==
    /\ Len(delivered) < Len(submitted)
    /\ NextCall.fn = "generateLogRecordId"
    /\ delivered' = Append(delivered,
          generateLogRecordId(NextCall.timeUnixNano, NextCall.severityNumber,
                              NextCall.rawBody, NextCall.sourceFile, NextCall.lineNumber))
    /\ UNCHANGED <<clientVars, toWorker, workerVars, fromWorker, storeVars, submitted,
                   cancelVars, configVars>>

CallNormalizeSeverity ==
    /\ Len(delivered) < Len(submitted)
    /\ NextCall.fn = "normalizeSeverity"
    /\ delivered' = Append(delivered,
          normalizeSeverity(NextCall.severityNumber, NextCall.severityText))
    /\ UNCHANGED <<clientVars, toWorker, workerVars, fromWorker, storeVars, submitted,
                   cancelVars, configVars>>

HelperNext ==
    \/ CallGenerateLogRecordId
    \/ CallNormalizeSeverity

HelperSpec == HelperInit /\ [][HelperNext]_vars

\* The calls of generateLogRecordId made so far.
IdCallsMade == {k \in 1..Len(delivered) : submitted[k].fn = "generateLogRecordId"}

\* Two calls of generateLogRecordId differ in the given argument and in no other.
DifferOnlyIn(j, k, argument) ==
    /\ submitted[j][argument] # submitted[k][argument]
    /\ \A other \in DOMAIN submitted[j] \ {argument} :
          submitted[j][other] = submitted[k][other]

\* C29, as claimed: identical arguments give identical ids, and changing the
\* rawBody alone or the lineNumber alone changes the id.
C29_BodyOrLineAloneChangesTheId ==
    \A j \in IdCallsMade, k \in IdCallsMade :
        /\ submitted[j] = submitted[k] => delivered[j] = delivered[k]
        /\ DifferOnlyIn(j, k, "rawBody") => delivered[j] # delivered[k]
        /\ DifferOnlyIn(j, k, "lineNumber") => delivered[j] # delivered[k]

\* C29, amended: identical arguments give identical ids, changing the
\* lineNumber alone changes the id, and two calls that differ only in the
\* rawBody, the bodies agreeing on the leading characters the id is computed
\* from, give the same id.
C29_LineAloneChangesTheIdAndTheBodyCountsByItsPrefix ==
    \A j \in IdCallsMade, k \in IdCallsMade :
        /\ submitted[j] = submitted[k] => delivered[j] = delivered[k]
        /\ DifferOnlyIn(j, k, "lineNumber") => delivered[j] # delivered[k]
        /\ (/\ DifferOnlyIn(j, k, "rawBody")
            /\ slice(submitted[j].rawBody, BodyPrefix) = slice(submitted[k].rawBody, BodyPrefix))
              => delivered[j] = delivered[k]

\* C29's case: two calls were made whose bodies are longer than the prefix
\* and differ after it, everything else the same.
C29_Witness ==
    /\ IdCallsMade = {1, 2}
    /\ DifferOnlyIn(1, 2, "rawBody")
    /\ Len(submitted[1].rawBody) > BodyPrefix
    /\ Len(submitted[1].rawBody) = Len(submitted[2].rawBody)
    /\ slice(submitted[1].rawBody, BodyPrefix) = slice(submitted[2].rawBody, BodyPrefix)

\* The calls of normalizeSeverity made so far.
SeverityCallsMade == {k \in 1..Len(delivered) : submitted[k].fn = "normalizeSeverity"}

\* The level of the 4-wide band of a severity number of 1..24.
BandLevel(n) == ALL_SEVERITY_LEVELS[((n - 1) \div 4) + 1]

\* The keywords normalizeSeverity looks for in the upper-cased text.
LevelKeywords ==
    [level \in Range(ALL_SEVERITY_LEVELS) |->
        CASE level = "TRACE" -> {<<"T", "R", "A", "C", "E">>}
          [] level = "DEBUG" -> {<<"D", "E", "B", "U", "G">>}
          [] level = "INFO" -> {<<"I", "N", "F", "O">>}
          [] level = "WARN" -> {<<"W", "A", "R", "N">>}
          [] level = "ERROR" -> {<<"E", "R", "R", "O", "R">>, <<"E", "R", "R">>}
          [] level = "FATAL" -> {<<"F", "A", "T", "A", "L">>,
                                 <<"C", "R", "I", "T", "I", "C", "A", "L">>}]

\* The levels a severity text matches, whatever its case.
MatchedLevels(severityText) ==
    IF ~severityText.defined THEN {}
    ELSE {level \in Range(ALL_SEVERITY_LEVELS) :
            \E keyword \in LevelKeywords[level] :
                includes(toUpperCase(severityText.value), keyword)}

\* C30: normalizeSeverity gives every number of 1..24 the level of its
\* 4-wide band whatever the text; for a number absent or outside 1..24 it
\* gives a level the text matches, or INFO when the text is absent or
\* matches none.
C30_NumberBandThenTextThenInfo ==
    \A k \in SeverityCallsMade :
        LET number == submitted[k].severityNumber
            text == submitted[k].severityText
        IN  IF number.defined /\ number.value \in 1..24
            THEN delivered[k] = BandLevel(number.value)
            ELSE IF MatchedLevels(text) = {} THEN delivered[k] = "INFO"
            ELSE delivered[k] \in MatchedLevels(text)

\* C30's case: a call with a number of the ERROR band and a text that says
\* something else has returned.
C30_Witness ==
    /\ SeverityCallsMade = {1}
    /\ submitted[1].severityNumber = Present(17)
    /\ submitted[1].severityText = Present(<<"I", "N", "F", "O">>)
    /\ delivered[1] = "ERROR"

\* The chunk events of a job among a sequence of events or responses.
ChunksOf(events, jobId) ==
    {k \in 1..Len(events) : events[k].type = "chunk" /\ events[k].jobId = jobId}

\* The event the state service applied in this step, if it applied one.
Applied(type) ==
    /\ Len(delivered') = Len(delivered) + 1
    /\ delivered'[Len(delivered')].type = type

\* C32: events are applied in arrival order. When the complete event of a
\* job registers its metadata, every chunk the worker posted for the job has
\* been delivered, each chunk was merged into allRecords when it was
\* delivered, and no chunk of the job is delivered or waiting after its
\* complete event.
C32_ChunksAreMergedBeforeTheMetadata ==
    /\ [](\A k \in 1..Len(delivered) :
            delivered[k].type = "complete" =>
                /\ \A j \in ChunksOf(delivered, delivered[k].jobId) : j < k
                /\ ChunksOf(fromWorker, delivered[k].jobId) = {})
    /\ [][/\ Applied("chunk") =>
                /\ delivered'[Len(delivered')] = Head(fromWorker)
                /\ \A r \in Range(Head(fromWorker).records) :
                      \E stored \in Range(allRecords') : stored.id = r.id
          /\ Applied("complete") =>
                /\ delivered'[Len(delivered')] = Head(fromWorker)
                /\ ChunksOf(fromWorker', Head(fromWorker).jobId) = {}
                /\ Len(loadedFiles') = Len(loadedFiles) + 1]_vars

\* C32's case: two jobs were loaded, the first has had a chunk with records
\* and then its complete event delivered and its metadata is listed, and
\* events of the second are still waiting.
C32_Witness ==
    /\ Len(loadedFiles) >= 1
    /\ \E k \in 1..Len(delivered) :
          /\ delivered[k].type = "complete"
          /\ \E j \in ChunksOf(delivered, delivered[k].jobId) : delivered[j].records # <<>>
    /\ fromWorker # <<>>

\* What the worker posts for a request when it is the only one it ever
\* receives.
PostedAlone(request) ==
    SelectSeq(RunToEnd(onWorkerMessage(request, {})).out,
              LAMBDA e : e.type \in JobEventTypes)

\* Job a was not cancelled, a cancel was requested for another job, and the
\* worker is through with a.
FinishedBesideACancelledJob(a) ==
    /\ a \in DOMAIN submitted \ cancelRequested
    /\ cancelRequested \ {a} # {}
    /\ WorkerDone(a)

\* C33: a cancel request for job B changes nothing for another job A: once
\* the worker is through with A, the events posted for A are those it posts
\* for A's request alone, and among them is exactly one complete event,
\* whatever the order of the two parse requests and B's cancel request.
C33_CancelLeavesOtherJobsWholeAndComplete ==
    \A a \in DOMAIN submitted :
        FinishedBesideACancelledJob(a) =>
            /\ PostedFor(a) = PostedAlone(submitted[a])
            /\ Len(OfType(PostedFor(a), "complete")) = 1

\* The parseErrors fields of a sequence of chunk events.
ParseErrorsOf(chunks) == [k \in 1..Len(chunks) |-> chunks[k].parseErrors]

\* C34: the complete event of a job carries the totals of its chunks:
\* totalRecords is the number of records in the chunks posted for the job,
\* totalParseErrors the sum of their parseErrors, on both parsing paths.
C34_CompleteCarriesTheTotalsOfTheChunks ==
    \A jobId \in DOMAIN submitted :
        LET ev == PostedFor(jobId)
            chunks == OfType(ev, "chunk")
        IN  \A k \in 1..Len(ev) :
                ev[k].type = "complete" =>
                    /\ ev[k].totalRecords = Len(ConcatRecords(chunks))
                    /\ ev[k].totalParseErrors = SumSeq(ParseErrorsOf(chunks))

\* C34's case: a JSON-Lines job has completed after two chunks that carry
\* records and parse errors between them.
C34_Witness ==
    \E jobId \in DOMAIN submitted :
        LET ev == PostedFor(jobId)
            chunks == OfType(ev, "chunk")
        IN  /\ ~submitted[jobId].content.isPrettyPrinted
            /\ Len(ev) > 0 /\ ev[Len(ev)].type = "complete"
            /\ Len(chunks) >= 2
            /\ ev[Len(ev)].totalRecords > 0
            /\ ev[Len(ev)].totalParseErrors > 0

\* The store holds a record or a metadata entry of a file.
HoldsFile(records, files, name) ==
    \/ \E k \in 1..Len(records) : records[k].sourceFile = name
    \/ \E k \in 1..Len(files) : files[k].fileName = name

\* C35: after removeFile(name) no record and no metadata entry of name comes
\* back unless a new load is submitted after the removal: the step that
\* follows a removeFile, when it submits no load, leaves the store without
\* the file, also when a job for it was in flight.
C35_RemovedFileStaysRemoved ==
    [][(lastOp.op = "removeFile" /\ jobCounter' = jobCounter)
          => ~HoldsFile(allRecords', loadedFiles', lastOp.arg)]_vars

\* The records a job leaves in an empty store when it is run with a chunk
\* size: its chunks merged one after the other, in any order the sort may
\* leave them.
RECURSIVE Ingested(_, _)
Ingested(stores, chunks) ==
    IF chunks = <<>> THEN stores
    ELSE Ingested(UNION {mergeChunk(store, Head(chunks).records) : store \in stores},
                  Tail(chunks))

\* ------------------------------------------- one file at different chunk sizes
\* The state service right after loadFile and the FileReader's onload, with
\* the chunk size of the parse request (msg.chunkSize, which the client sets
\* to 500) drawn from several values, over texts whose records share an id
\* and over two starting stores; lastOp holds the load and the store it found.
ChunkSizes == 1..(ChunkSize + 1)

\* A log record whose body agrees with its twins' on every character the id
\* is computed from and differs in the last.
TwinRecord(last) ==
    [LogRecord(0, "a") EXCEPT !.body = TextBody(<<"a", "b", "c", last>>)]

SizedContents ==
    {PrettyContent("array", <<Envelope(<<TwinRecord("d"), TwinRecord("e")>>)>>, <<>>),
     PrettyContent("array", <<Envelope(<<LogRecord(3, "m")>>),
                              Envelope(<<TwinRecord("d"), LogRecord(2, "m"),
                                         TwinRecord("e")>>)>>, <<>>),
     PrettyContent("object", <<Envelope(<<LogRecord(3, "m"), LogRecord(0, "n"),
                                          LogRecord(2, "m")>>)>>, <<>>),
     PrettyContent("fail", <<>>, <<EnvelopeBlock(Envelope(<<TwinRecord("d")>>)), BadBlock,
                                   EnvelopeBlock(Envelope(<<TwinRecord("d")>>))>>),
     JsonlContent(<<JsonLine(Envelope(<<TwinRecord("d"), TwinRecord("e")>>))>>),
     JsonlContent(<<JsonLine(Envelope(<<LogRecord(3, "m")>>)), BadLine,
                    JsonLine(Envelope(<<LogRecord(2, "m"), LogRecord(0, "n")>>))>>)}

\* The stores the job starts from: empty, and one record of an earlier file.
StartingStores ==
    {<<>>, <<ParsedLogRecord(LogRecord(1, "o"), Envelope(<<>>), "old.log", 1)>>}

\* The parse request with another chunk size.
Sized(request, chunkSize) == [request EXCEPT !.chunkSize = chunkSize]

ChunkInit ==
    \E content \in SizedContents, chunkSize \in ChunkSizes, store \in StartingStores :
        LET request == Sized(ParseRequest(1, "a.json", content), chunkSize) IN
        /\ jobCounter = 1
        /\ readers = {}
        /\ toWorker = <<request>>
        /\ activeCancellations = {}
        /\ run = IdleRun
        /\ fromWorker = <<>>
        /\ allRecords = store
        /\ loadedFiles = <<>>
        /\ filters = createDefaultFilterState
        /\ parseProgress = Null
        /\ isLoading = TRUE
        /\ selectedRecord = Null
        /\ totalParseErrors = 0
        /\ sortDirection = "asc"
        /\ activeJobs = (1 :> [fileName |-> "a.json", fileSize |-> ByteSize(content)])
        /\ lastOp = [op |-> "loadFile", arg |-> [name |-> "a.json", content |-> content],
                     before |-> [allRecords |-> store]]
        /\ delivered = <<>>
        /\ submitted = (1 :> request)
        /\ cancelRequested = {}
        /\ startedCancelled = {}
        /\ cancelledMidJob = {}
        /\ ConfigInit

ChunkNext ==
    \/ WorkerRuns
    \/ ViewDeliver

ChunkSpec == ChunkInit /\ [][ChunkNext]_vars

\* The job has been fully ingested: its complete event was applied.
FullyIngested(jobId) ==
    /\ WorkerDone(jobId)
    /\ fromWorker = <<>>
    /\ jobId \notin DOMAIN activeJobs

\* C36: the records in allRecords after a job has been fully ingested do not
\* depend on the chunk size: from the same starting store, the same text run
\* with any other chunk size leaves the same set of records.
C36_ChunkSizeDoesNotChangeTheRecords ==
    FullyIngested(1) =>
        \A chunkSize \in ChunkSizes :
            \A store \in Ingested({lastOp.before.allRecords},
                                  OfType(PostedAlone(Sized(submitted[1], chunkSize)), "chunk")) :
                Range(store) = Range(allRecords)

\* A job is outstanding for a file name.
OutstandingFor(name) == \E jobId \in DOMAIN activeJobs : activeJobs[jobId].fileName = name

\* C37: whenever no job is outstanding for a file, loadedFiles holds at most
\* one entry of its name, and the entry's recordCount is the number of
\* records of allRecords whose sourceFile is that name.
C37_RecordCountMatchesTheStore ==
    \A name \in {loadedFiles[k].fileName : k \in 1..Len(loadedFiles)} :
        ~OutstandingFor(name) =>
            /\ Cardinality({k \in 1..Len(loadedFiles) : loadedFiles[k].fileName = name}) <= 1
            /\ \A k \in 1..Len(loadedFiles) :
                  loadedFiles[k].fileName = name =>
                      loadedFiles[k].recordCount =
                          Cardinality({j \in 1..Len(allRecords) :
                                          allRecords[j].sourceFile = name})

\* C38: the selected record is null or a record that allRecords holds.
C38_SelectionIsInTheStore ==
    selectedRecord # Null => \E k \in 1..Len(allRecords) : allRecords[k] = selectedRecord

\* The loading of files with its scheduling: the operations that read or
\* write isLoading and parseProgress, where a posted request is eventually
\* taken by the worker, a posted response eventually handled on the main
\* thread, and a FileReader eventually fires. Nothing obliges the user to act.
LoadNext ==
    \/ CallLoadFile
    \/ CallLoadText
    \/ StoreReaderLoads
    \/ StoreReaderFails
    \/ WorkerRuns
    \/ StoreDeliver
    \/ CallClearAll

\* The step by which the worker's listener takes the oldest posted request:
\* of the actions of LoadNext only WorkerRuns shortens toWorker.
WorkerTakes == run.phase = "idle" /\ toWorker # <<>> /\ toWorker' = Tail(toWorker)

StoreFairSpec ==
    /\ Init /\ [][LoadNext]_vars
    /\ WF_toWorker(WorkerTakes)
    /\ WF_vars(StoreDeliver)
    /\ WF_vars(StoreReaderLoads \/ StoreReaderFails)

\* Every submitted job has come to its end: at least one was submitted, and
\* no reader, request, run or response is left of any.
AllJobsSettled == jobCounter > 0 /\ Quiescent

\* The state service shows no load in progress.
ShowsIdle == isLoading = FALSE /\ parseProgress = Null

\* C39: once every submitted job has completed or failed, the state service
\* eventually shows no load in progress (unless a new load is submitted
\* first), and keeps showing none until the next load is submitted.
C39_SettledJobsLeaveTheServiceIdle ==
    /\ AllJobsSettled ~> (ShowsIdle \/ ~AllJobsSettled)
    /\ [][(AllJobsSettled /\ ShowsIdle /\ jobCounter' = jobCounter) => ShowsIdle']_vars

\* ------------------------------------------- the collector config: its state
\* A YAML text is taken as the document it denotes: for each of the five
\* sections the keys of its mapping in order (none when the section is absent
\* or empty), and the service mapping, or Undefined when the text has none.
\* Malformed stands for a text that yaml.load rejects.
Malformed == [malformed |-> TRUE]

SectionKeys == <<"receivers", "processors", "exporters", "connectors", "extensions">>

\* The ids of a list of components.
IdsOf(components) == {components[k].id : k \in 1..Len(components)}

parseYaml(yamlString) ==
    LET parseComponents(raw, componentType) ==
            [k \in 1..Len(raw) |-> OtelComponent(raw[k], componentType)]
        parsePipelines(raw) ==
            [k \in 1..Len(raw) |->
                OtelPipeline(raw[k].id, raw[k].receivers, raw[k].processors,
                             raw[k].exporters)]
        parseService(raw) ==
            IF raw = Undefined THEN [extensions |-> Undefined, pipelines |-> <<>>]
            ELSE [extensions |-> raw.value.extensions,
                  pipelines |-> parsePipelines(raw.value.pipelines)]
    IN  [receivers |-> parseComponents(yamlString.receivers, "receiver"),
         processors |-> parseComponents(yamlString.processors, "processor"),
         exporters |-> parseComponents(yamlString.exporters, "exporter"),
         connectors |-> parseComponents(yamlString.connectors, "connector"),
         extensions |-> parseComponents(yamlString.extensions, "extension"),
         service |-> parseService(yamlString.service)]

\* A section is written as the ids of its components. A pipeline is written
\* with its receivers and exporters, and with its processors when it has any:
\* an absent list reads back as the empty one. The service's extension list
\* is written when it has an entry.
serializeToYaml(current) ==
    LET serializeComponents(components) ==
            [k \in 1..Len(components) |-> components[k].id]
        serializePipelines(pipelines) ==
            [k \in 1..Len(pipelines) |->
                [id |-> pipelines[k].id, receivers |-> pipelines[k].receivers,
                 processors |-> pipelines[k].processors,
                 exporters |-> pipelines[k].exporters]]
        serializeService ==
            [extensions |->
                IF /\ current.service.extensions.defined
                   /\ Len(current.service.extensions.value) > 0
                THEN current.service.extensions ELSE Undefined,
             pipelines |-> serializePipelines(current.service.pipelines)]
    IN  [receivers |-> serializeComponents(current.receivers),
         processors |-> serializeComponents(current.processors),
         exporters |-> serializeComponents(current.exporters),
         connectors |-> serializeComponents(current.connectors),
         extensions |-> serializeComponents(current.extensions),
         service |-> Present(serializeService)]

\* The concatenation of a list of lists.
RECURSIVE Flattened(_)
Flattened(lists) ==
    IF lists = <<>> THEN <<>> ELSE Head(lists) \o Flattened(Tail(lists))

\* The validator's five checks in their order. An issue's message is kept as
\* the check that wrote it and the ids it names.
validate(current) ==
    LET pipelines == current.service.pipelines
        Issue(severity, check, pipelineId, componentId, autoFixable) ==
            [severity |-> severity, check |-> check, pipelineId |-> pipelineId,
             componentId |-> componentId, autoFixable |-> autoFixable]
        DanglingIn(pipeline, ids, role, defined) ==
            LET dangling == SelectSeq(ids, LAMBDA id : id \notin defined) IN
            [k \in 1..Len(dangling) |->
                Issue("error", <<"undefined", role>>, Present(pipeline.id),
                      Present(dangling[k]), TRUE)]
        checkDanglingPipelineRefs ==
            Flattened([k \in 1..Len(pipelines) |->
                DanglingIn(pipelines[k], pipelines[k].receivers, "receiver",
                           IdsOf(current.receivers))
                \o DanglingIn(pipelines[k], pipelines[k].processors, "processor",
                              IdsOf(current.processors))
                \o DanglingIn(pipelines[k], pipelines[k].exporters, "exporter",
                              IdsOf(current.exporters))])
        UnusedIn(components, role, used) ==
            LET unused == SelectSeq(components, LAMBDA c : c.id \notin used) IN
            [k \in 1..Len(unused) |->
                Issue("warning", <<"unused", role>>, Undefined, Present(unused[k].id),
                      FALSE)]
        usedReceivers == UNION {Range(pipelines[k].receivers) : k \in 1..Len(pipelines)}
        usedProcessors == UNION {Range(pipelines[k].processors) : k \in 1..Len(pipelines)}
        usedExporters == UNION {Range(pipelines[k].exporters) : k \in 1..Len(pipelines)}
        checkUnusedComponents ==
            UnusedIn(current.receivers, "receiver", usedReceivers)
            \o UnusedIn(current.processors, "processor", usedProcessors)
            \o UnusedIn(current.exporters, "exporter", usedExporters)
        checkEmptyPipelines ==
            Flattened([k \in 1..Len(pipelines) |->
                (IF Len(pipelines[k].receivers) = 0
                 THEN <<Issue("error", <<"no receivers">>, Present(pipelines[k].id),
                              Undefined, FALSE)>>
                 ELSE <<>>)
                \o (IF Len(pipelines[k].exporters) = 0
                    THEN <<Issue("error", <<"no exporters">>, Present(pipelines[k].id),
                                 Undefined, FALSE)>>
                    ELSE <<>>)])
        checkEmptyRequiredFields ==
            IF Len(pipelines) = 0
            THEN <<Issue("warning", <<"no pipelines">>, Undefined, Undefined, FALSE)>>
            ELSE <<>>
        listed == IF current.service.extensions.defined
                  THEN current.service.extensions.value ELSE <<>>
        danglingExtensions ==
            SelectSeq(listed, LAMBDA id : id \notin IdsOf(current.extensions))
        checkDanglingExtensionRefs ==
            [k \in 1..Len(danglingExtensions) |->
                Issue("error", <<"undefined", "extension">>, Undefined,
                      Present(danglingExtensions[k]), TRUE)]
    IN  checkDanglingPipelineRefs
        \o checkUnusedComponents
        \o checkEmptyPipelines
        \o checkEmptyRequiredFields
        \o checkDanglingExtensionRefs

\* The references to ids that their section does not define are dropped;
\* an undefined service.extensions stays undefined.
repair(current) ==
    [current EXCEPT
        !.service.extensions =
            IF @.defined
            THEN Present(SelectSeq(@.value, LAMBDA id : id \in IdsOf(current.extensions)))
            ELSE Undefined,
        !.service.pipelines =
            [k \in 1..Len(@) |->
                [@[k] EXCEPT
                    !.receivers = SelectSeq(@, LAMBDA id : id \in IdsOf(current.receivers)),
                    !.processors = SelectSeq(@, LAMBDA id : id \in IdsOf(current.processors)),
                    !.exporters = SelectSeq(@, LAMBDA id : id \in IdsOf(current.exporters))]]]

\* validateAndRepair: the issues are those of the config as parsed, the
\* config kept is the repaired one.
validateAndRepair(parsed) ==
    /\ validationIssues' = validate(parsed)
    /\ config' = repair(parsed)

loadYaml(yamlString) ==
    IF yamlString = Malformed
    THEN /\ errors' = <<"parse error">>
         /\ UNCHANGED <<config, rawYaml, validationIssues, selectedNode>>
    ELSE /\ validateAndRepair(parseYaml(yamlString))
         /\ rawYaml' = yamlString
         /\ errors' = <<>>
         /\ UNCHANGED selectedNode

\* The text editor's path: the text is kept even when it does not parse.
updateYaml(yamlString) ==
    IF yamlString = Malformed
    THEN /\ rawYaml' = yamlString
         /\ errors' = <<"parse error">>
         /\ UNCHANGED <<config, validationIssues, selectedNode>>
    ELSE /\ validateAndRepair(parseYaml(yamlString))
         /\ rawYaml' = yamlString
         /\ errors' = <<>>
         /\ UNCHANGED selectedNode

reset ==
    /\ config' = createEmptyConfig
    /\ rawYaml' = EmptyYaml
    /\ errors' = <<>>
    /\ validationIssues' = <<>>
    /\ UNCHANGED selectedNode

\* The selection holds the component; its yamlLine, a position in the text,
\* is left out.
selectNode(component) ==
    /\ selectedNode' = [component |-> component]
    /\ UNCHANGED <<config, rawYaml, errors, validationIssues>>

clearSelection ==
    /\ selectedNode' = Null
    /\ UNCHANGED <<config, rawYaml, errors, validationIssues>>

\* removeComponent with the pipelines left as they are.
updatedConfigKeepingPipelines(current, component) ==
    [current EXCEPT
        !.receivers = SelectSeq(@, LAMBDA r : r.id # component.id),
        !.processors = SelectSeq(@, LAMBDA p : p.id # component.id),
        !.exporters = SelectSeq(@, LAMBDA e : e.id # component.id),
        !.connectors = SelectSeq(@, LAMBDA c : c.id # component.id),
        !.extensions = SelectSeq(@, LAMBDA e : e.id # component.id),
        !.service.extensions =
            IF @.defined THEN Present(SelectSeq(@.value, LAMBDA id : id # component.id))
            ELSE Undefined]

\* The config removeComponent builds: every section, the service's extension
\* list and the three lists of every pipeline, filtered by the component's id.
updatedConfig(current, component) ==
    [current EXCEPT
        !.receivers = SelectSeq(@, LAMBDA r : r.id # component.id),
        !.processors = SelectSeq(@, LAMBDA p : p.id # component.id),
        !.exporters = SelectSeq(@, LAMBDA e : e.id # component.id),
        !.connectors = SelectSeq(@, LAMBDA c : c.id # component.id),
        !.extensions = SelectSeq(@, LAMBDA e : e.id # component.id),
        !.service.extensions =
            IF @.defined THEN Present(SelectSeq(@.value, LAMBDA id : id # component.id))
            ELSE Undefined,
        !.service.pipelines =
            [k \in 1..Len(@) |->
                [@[k] EXCEPT
                    !.receivers = SelectSeq(@, LAMBDA id : id # component.id),
                    !.processors = SelectSeq(@, LAMBDA id : id # component.id),
                    !.exporters = SelectSeq(@, LAMBDA id : id # component.id)]]]

removeComponent(component) ==
    /\ validationIssues' = validate(updatedConfig(config, component))
    /\ config' = updatedConfig(config, component)
    /\ rawYaml' = serializeToYaml(updatedConfig(config, component))
    /\ selectedNode' = Null
    /\ UNCHANGED errors

\* ------------------------------------------ the collector config: the editor
\* The texts the toolbar and the editor hand over. A receiver and an exporter
\* share the id otlp; a processor, a second exporter, a connector and an
\* extension may be defined; the service may list the extension, defined or
\* not; there are up to two pipelines.
Documents ==
    LET TracesPipeline ==
            [id |-> "traces", receivers |-> <<"otlp">>, processors |-> <<"batch">>,
             exporters |-> <<"otlp", "debug">>]
        LogsPipeline ==
            [id |-> "logs", receivers |-> <<"otlp">>, processors |-> <<>>,
             exporters |-> <<"otlp">>]
        ExtensionDocuments ==
            {[defined |-> <<>>, listed |-> Undefined],
             [defined |-> <<"health_check">>, listed |-> Present(<<"health_check">>)],
             [defined |-> <<>>, listed |-> Present(<<"health_check">>)]}
    IN  {[receivers |-> <<"otlp">>, processors |-> p, exporters |-> e, connectors |-> c,
          extensions |-> x.defined,
          service |-> Present([extensions |-> x.listed, pipelines |-> s])] :
            p \in {<<>>, <<"batch">>}, e \in {<<"otlp">>, <<"otlp", "debug">>},
            c \in {<<>>, <<"forward">>}, x \in ExtensionDocuments,
            s \in {<<>>, <<TracesPipeline>>, <<TracesPipeline, LogsPipeline>>}}
        \cup {EmptyYaml}

\* The nodes of the graph: every component of the five sections.
GraphComponents ==
    Range(config.receivers) \cup Range(config.processors) \cup Range(config.exporters)
    \cup Range(config.connectors) \cup Range(config.extensions)

\* An operation of the config state service is recorded, removeComponent
\* with the config it found.
ConfigCalled(op, arg) ==
    configOp' = [op |-> op, arg |-> arg,
                 before |-> IF op = "removeComponent" THEN config ELSE Null]

\* The log viewer's variables, which the config editor leaves alone.
viewerVars ==
    <<clientVars, toWorker, workerVars, fromWorker, storeVars, delivered, submitted,
      cancelVars>>

\* The toolbar loads a text, the editor updates it, the toolbar resets, a
\* click on a node of the graph selects it, a click on the background clears
\* the selection, and the Delete key or the detail panel's confirmed delete
\* removes the selected node's component.
ConfigNext ==
    \/ /\ \E yamlString \in Documents \cup {Malformed} :
             loadYaml(yamlString) /\ ConfigCalled("loadYaml", yamlString)
       /\ UNCHANGED viewerVars
    \/ /\ \E yamlString \in Documents \cup {Malformed} :
             updateYaml(yamlString) /\ ConfigCalled("updateYaml", yamlString)
       /\ UNCHANGED viewerVars
    \/ /\ reset
       /\ ConfigCalled("reset", Null)
       /\ UNCHANGED viewerVars
    \/ /\ \E component \in GraphComponents :
             selectNode(component) /\ ConfigCalled("selectNode", component)
       /\ UNCHANGED viewerVars
    \/ /\ clearSelection
       /\ ConfigCalled("clearSelection", Null)
       /\ UNCHANGED viewerVars
    \/ /\ selectedNode # Null
       /\ removeComponent(selectedNode.component)
       /\ ConfigCalled("removeComponent", selectedNode.component)
       /\ UNCHANGED viewerVars

ConfigSpec == Init /\ [][ConfigNext]_vars

\* The section that holds the components of a type.
SectionOf(componentType) ==
    CASE componentType = "receiver" -> "receivers"
      [] componentType = "processor" -> "processors"
      [] componentType = "exporter" -> "exporters"
      [] componentType = "connector" -> "connectors"
      [] componentType = "extension" -> "extensions"

\* The ids a config's pipelines and its service's extension list refer to.
ReferencedIds(current) ==
    UNION {Range(current.service.pipelines[k].receivers)
           \cup Range(current.service.pipelines[k].processors)
           \cup Range(current.service.pipelines[k].exporters) :
              k \in 1..Len(current.service.pipelines)}
    \cup (IF current.service.extensions.defined
          THEN Range(current.service.extensions.value) ELSE {})

\* C31: after removeComponent(c), no pipeline's receivers, processors or
\* exporters list and no service.extensions list contains c.id, and c is no
\* longer defined in its section.
C31_RemovedComponentIsGoneEverywhere ==
    configOp.op = "removeComponent" =>
        /\ configOp.arg.id \notin ReferencedIds(config)
        /\ configOp.arg.id \notin IdsOf(config[SectionOf(configOp.arg.componentType)])

\* A component that was defined and that a pipeline referred to has been removed.
C31_Witness ==
    /\ configOp.op = "removeComponent"
    /\ configOp.arg \in Range(configOp.before[SectionOf(configOp.arg.componentType)])
    /\ \E k \in 1..Len(configOp.before.service.pipelines) :
          configOp.arg.id \in Range(configOp.before.service.pipelines[k].processors)
    /\ Len(config.service.pipelines) = 2

\* The list of a pipeline in which a component of the given type is named.
RefersTo(role, componentType) ==
    \/ role = "receivers" /\ componentType \in {"receiver", "connector"}
    \/ role = "processors" /\ componentType = "processor"
    \/ role = "exporters" /\ componentType \in {"exporter", "connector"}

\* A list of ids without the id of the removed component.
WithoutId(ids, component) == SelectSeq(ids, LAMBDA id : id # component.id)

\* C40: removeComponent(c) removes only c: every other component, including
\* a component of another section with c's id, stays defined, and the
\* pipelines' references to those other components are unchanged.
C40_RemoveComponentRemovesOnlyTheComponent ==
    configOp.op = "removeComponent" =>
        LET c == configOp.arg
            before == configOp.before
        IN  /\ \A k \in 1..Len(SectionKeys) :
                  config[SectionKeys[k]] =
                      IF SectionKeys[k] = SectionOf(c.componentType)
                      THEN SelectSeq(before[SectionKeys[k]], LAMBDA other : other.id # c.id)
                      ELSE before[SectionKeys[k]]
            /\ Len(config.service.pipelines) = Len(before.service.pipelines)
            /\ \A k \in 1..Len(before.service.pipelines) :
                  \A role \in {"receivers", "processors", "exporters"} :
                      config.service.pipelines[k][role] =
                          IF RefersTo(role, c.componentType)
                          THEN WithoutId(before.service.pipelines[k][role], c)
                          ELSE before.service.pipelines[k][role]

====
